---- MODULE Spec2Model ----
(***************************************************************************)
(* IDSCP2 per-connection finite state machine (idscp_core/src/fsm/mod.rs)  *)
(* and its RAT driver interface (idscp_core/src/fsm/rat_interface.rs).     *)
(*                                                                         *)
(* process_event is modelled as the operator process_event over an FSM     *)
(* record; the actions of Spec feed it the events of one endpoint whose    *)
(* peer is arbitrary, the actions of NetSpec connect two endpoints by FIFO *)
(* channels.                                                               *)
(***************************************************************************)
EXTENDS Integers, Sequences, FiniteSets, TLC

VARIABLES fsm, peers, chan, accepted, delivered

vars == <<fsm, peers, chan, accepted, delivered>>

(* ------------------------------ bounds --------------------------------- *)

\* number of distinct application payloads the upper layer may submit
MaxPayload == 2

\* payloads submitted per endpoint in the two-endpoint system
MaxSend == 3

\* messages in flight per direction in the two-endpoint system
MaxChan == 2

\* longest list of attestation suites given to the mechanism negotiation
MaxSuites == 2

\* most worker runs started on one RAT interface
MaxRuns == 2

\* most messages the workers of one RAT interface emit, all runs together
MaxSent == 2

Payloads == 1..MaxPayload

Bits == {0, 1}

(* ------------------------------ FsmState ------------------------------- *)

ClosedUnlocked == "Closed(Unlocked)"

ClosedLocked == "Closed(Locked)"

WaitForHello == "WaitForHello"

WaitForRat == "WaitForRat"

WaitForRatProver == "WaitForRatProver"

WaitForRatVerifier == "WaitForRatVerifier"

WaitForDatAndRat == "WaitForDatAndRat"

WaitForDatAndRatVerifier == "WaitForDatAndRatVerifier"

WaitForAck == "WaitForAck"

Established == "Established"

FsmState == {ClosedUnlocked, ClosedLocked, WaitForHello, WaitForRat, WaitForRatProver,
             WaitForRatVerifier, WaitForDatAndRat, WaitForDatAndRatVerifier,
             WaitForAck, Established}

NonClosed == FsmState \ {ClosedUnlocked, ClosedLocked}

(* ------------------------------ AckFlag -------------------------------- *)

Inactive == <<>>

Active(p) == <<p>>

IsActive(flag) == flag /= Inactive

(* --------------------------- AlternatingBit ---------------------------- *)

alternate(b) == 1 - b

(* ------------------------------ events --------------------------------- *)

FromUpper(c) == [src |-> "Upper", cmd |-> c]

FromUpperData(d) == [src |-> "Upper", cmd |-> "Data", data |-> d]

FromSecureChannel(m) == [src |-> "Sc", msg |-> m]

FromRatProver(m) == [src |-> "RatProver", msg |-> m]

FromRatVerifier(m) == [src |-> "RatVerifier", msg |-> m]

Timeout(k) == [src |-> "Timer", kind |-> k]

RatMessage == {"OK", "Failed", "RawData"}

TimeoutKinds == {"HandshakeTimeout", "DatTimeout", "RatTimeout", "AckTimeout"}

(* peer messages *)

IdscpHello(d, e, s) == [type |-> "Hello", dat |-> d, expected |-> e, supported |-> s]

IdscpClose(c) == [type |-> "Close", cause |-> c]

IdscpDat(t) == [type |-> "Dat", token |-> t]

IdscpDatExpired == [type |-> "DatExp"]

IdscpRatProver == [type |-> "RatProver"]

IdscpRatVerifier == [type |-> "RatVerifier"]

IdscpReRat == [type |-> "ReRat"]

IdscpData(p, b) == [type |-> "Data", data |-> p, bit |-> b]

IdscpAck(b) == [type |-> "Ack", bit |-> b]

ScError == [type |-> "Error"]

(* DAT carried by a Hello: absent, not UTF-8, or a token the DAPS accepts or rejects *)
HelloDats == {"missing", "unparsable", "invalid", "valid", "valid_long"}

DatTokens == {"unparsable", "invalid", "valid", "valid_long"}

(* (expectedRatSuite, supportedRatSuite) pairs a peer Hello may carry *)
SuitePairs == { <<(<<"A">>), (<<"A">>)>>,
                <<(<<"B", "A">>), (<<"A", "B">>)>>,
                <<(<<>>), (<<"A">>)>>,
                <<(<<"A">>), (<<>>)>>,
                <<(<<"X">>), (<<"A">>)>>,
                <<(<<"A">>), (<<"X">>)>> }

CloseCauses == {"USER_SHUTDOWN", "TIMEOUT", "NO_VALID_DAT", "RAT_PROVER_FAILED",
                "RAT_VERIFIER_FAILED", "ERROR"}

(* ----------------------- attestation configuration --------------------- *)

supported_attestation_suite == <<"A", "B">>

expected_attestation_suite == <<"A", "B">>

prover_registry == {"A"}

verifier_registry == {"A", "B"}

(* ------------------------------ DAPS ----------------------------------- *)

get_token == "valid"

(* Some(lifetime of the token) or, for a token that is not valid, None, written 0 *)
verify_token(token) ==
    CASE token = "valid" -> 1
      [] token = "valid_long" -> 2
      [] OTHER -> 0

(* ------------------------- RatDriverInterface -------------------------- *)

(* One interface per role: content (Some/None), cached_driver (the mechanism of  *)
(* the cached driver or "none"), and run, how the worker run started last stands: *)
(* "none", "running", "ok", "failed" (it emitted OK/Failed) or "stopped"; "done" *)
(* is a worker that has emitted OK and returned from execute while its OK still  *)
(* waits in the listener's queue.                                                *)
RatDriverInterface == [content |-> FALSE, cached_driver |-> "none", run |-> "none"]

(* a slip: stop_driver ends the run and keeps the content *)
stop_driver_keeping_content(i) == [i EXCEPT !.run = IF @ = "running" THEN "stopped" ELSE @]

stop_driver(i) == [i EXCEPT !.content = FALSE,
                            !.run = IF @ = "running" THEN "stopped" ELSE @]

run_driver(i) == IF i.cached_driver = "none"
                 THEN [i |-> i, r |-> "RatDriverNotCached"]
                 ELSE [i |-> [i EXCEPT !.content = TRUE, !.run = "running"], r |-> "Ok"]

start_driver(i, rat_mechanism, registry) ==
    LET s == stop_driver(i)
    IN IF rat_mechanism \notin registry
       THEN [i |-> s, r |-> "UnknownRatDriver"]
       ELSE run_driver([s EXCEPT !.cached_driver = rat_mechanism])

restart_driver(i) == run_driver(stop_driver(i))

(* RatDriverInactive without content; RatConnectionAborted when the worker has *)
(* ended and dropped its receiver                                              *)
write_to_driver(i) == IF ~i.content THEN "RatDriverInactive"
                      ELSE IF i.run = "running" THEN "Ok"
                      ELSE "RatConnectionAborted"

(* the listener forwards a worker message only while its run is not cancelled *)
ListenerDelivers(i) == i.content /\ i.run = "running"

(* -------------------- FiniteStateMachine::create ------------------------ *)

(* The fields of FiniteStateMachine, the content/cached_driver fields of its two  *)
(* RatDriverInterface objects, the shared handshake cell and connection flag.     *)
(* dat_duration is the duration dat_timer was last started with, dat_fresh tells   *)
(* whether the last verified peer DAT has not timed out, sent_bit                  *)
(* the bit placed in the Data message that carried the pending payload, hs_writes *)
(* how often the handshake cell was written.  out, deliv, on_close, res and       *)
(* blocked describe                                                               *)
(* the last process_event call: messages written, payloads handed to on_message,  *)
(* whether on_close ran, the value returned, and whether the call is still        *)
(* waiting in wait_for_connection_available.                                      *)
create == [ current_state |-> ClosedUnlocked,
            ack_flag |-> Inactive,
            expected_alternating_bit |-> 0,
            next_send_alternating_bit |-> 0,
            handshake_timer |-> FALSE,
            prover_timer |-> FALSE,
            verifier_timer |-> FALSE,
            rat_timer |-> FALSE,
            ack_timer |-> FALSE,
            dat_timer |-> FALSE,
            rat_prover |-> RatDriverInterface,
            rat_verifier |-> RatDriverInterface,
            sc_unlocked |-> FALSE,
            sc_stopped |-> FALSE,
            handshake_result_available |-> FALSE,
            handshake_result |-> "NotAvailable",
            hs_writes |-> 0,
            connection |-> "unset",
            dat_fresh |-> FALSE,
            dat_duration |-> 0,
            sent_bit |-> 0,
            blocked |-> FALSE,
            out |-> <<>>,
            deliv |-> <<>>,
            on_close |-> FALSE,
            res |-> "Ok" ]

(* ------------------------------ timers --------------------------------- *)

TimerNames == {"handshake_timer", "prover_timer", "verifier_timer", "rat_timer",
               "ack_timer", "dat_timer"}

start(f, t) == [f EXCEPT ![t] = TRUE]

(* dat_timer is the one timer that is started with a duration *)
start_dat_timer(f, duration) ==
    [f EXCEPT !.dat_timer = TRUE, !.dat_fresh = TRUE, !.dat_duration = duration]

cancel(f, t) == [f EXCEPT ![t] = FALSE]

(* the event a timer injects on expiry *)
TimerEvent(t) == CASE t = "rat_timer" -> Timeout("RatTimeout")
                   [] t = "ack_timer" -> Timeout("AckTimeout")
                   [] t = "dat_timer" -> Timeout("DatTimeout")
                   [] OTHER -> Timeout("HandshakeTimeout")

(* ----------------------- secure channel interface ---------------------- *)

(* write: w tells whether the underlying send succeeds *)
write(f, m, w) == IF w THEN [f EXCEPT !.out = Append(@, m)] ELSE f

(* ------------------------------ actions -------------------------------- *)

(* the pair an action returns: the FSM after it and Ok or the error *)
Ret(f, r) == [f |-> f, r |-> r]

IoResult(w) == IF w THEN "Ok" ELSE "IoError"

action_start_handshake(f, w) ==
    LET u == [f EXCEPT !.sc_unlocked = TRUE]
        hello == IdscpHello(get_token, expected_attestation_suite,
                            supported_attestation_suite)
    IN Ret(write(u, hello, w), IoResult(w))

(* a slip: the verifier is stopped but the re-attestation period keeps running *)
dat_timeout_handler_keeping_rat_timer(f, w) ==
    LET s == [f EXCEPT !.rat_verifier = stop_driver(@)]
    IN Ret(write(s, IdscpDatExpired, w), IoResult(w))

dat_timeout_handler(f, w) ==
    LET s == cancel([f EXCEPT !.rat_verifier = stop_driver(@)], "rat_timer")
    IN Ret(write(s, IdscpDatExpired, w), IoResult(w))

handshake_timeout_handler(f, w) == write(f, IdscpClose("TIMEOUT"), w)

action_stop(f, w) == write(f, IdscpClose("USER_SHUTDOWN"), w)

NoRatMechanismMatch == "NoRatMechanismMatch"

(* a slip: the loops are nested the other way round *)
calculate_rat_algorithms_by_secondary(primary, secondary) ==
    LET hits == {j \in 1..Len(secondary) :
                    \E i \in 1..Len(primary) : primary[i] = secondary[j]}
    IN IF hits = {}
       THEN NoRatMechanismMatch
       ELSE secondary[CHOOSE j \in hits : \A k \in hits : j <= k]

(* the first element of primary that occurs in secondary *)
calculate_rat_algorithms(primary, secondary) ==
    LET hits == {i \in 1..Len(primary) :
                    \E j \in 1..Len(secondary) : primary[i] = secondary[j]}
    IN IF hits = {}
       THEN NoRatMechanismMatch
       ELSE primary[CHOOSE i \in hits : \A k \in hits : i <= k]

calculate_rat_verifier_mechanism(peer_rat_supported_suites, own_rat_expected_suites) ==
    IF peer_rat_supported_suites = <<>> THEN NoRatMechanismMatch
    ELSE IF own_rat_expected_suites = <<>> THEN NoRatMechanismMatch
    ELSE calculate_rat_algorithms(own_rat_expected_suites, peer_rat_supported_suites)

calculate_rat_prover_mechanism(peer_rat_expected_suites, own_rat_supported_suites) ==
    IF peer_rat_expected_suites = <<>> THEN NoRatMechanismMatch
    ELSE IF own_rat_supported_suites = <<>> THEN NoRatMechanismMatch
    ELSE calculate_rat_algorithms(peer_rat_expected_suites, own_rat_supported_suites)

(* the part of action_recv_hello after the DAT was verified *)
start_rat_drivers(f, prover_mechanism, verifier_mechanism) ==
    LET v == start_driver(f.rat_verifier, verifier_mechanism, verifier_registry)
        fv == [f EXCEPT !.rat_verifier = v.i]
        fvt == start(fv, "verifier_timer")
        p == start_driver(fvt.rat_prover, prover_mechanism, prover_registry)
        fp == [fvt EXCEPT !.rat_prover = p.i]
    IN IF v.r /= "Ok" THEN Ret(fv, "RatError")
       ELSE IF p.r /= "Ok" THEN Ret(fp, "RatError")
       ELSE Ret(start(fp, "prover_timer"), "Ok")

(* a slip: a Hello with a bad DAT is refused without telling the peer *)
action_recv_hello_closing_silently(f, hello, w) ==
    LET c == cancel(f, "handshake_timer")
        prover_mechanism ==
            calculate_rat_prover_mechanism(hello.expected, supported_attestation_suite)
        verifier_mechanism ==
            calculate_rat_verifier_mechanism(hello.supported, expected_attestation_suite)
    IN IF prover_mechanism = NoRatMechanismMatch THEN Ret(c, "RatNegotiationError")
       ELSE IF verifier_mechanism = NoRatMechanismMatch THEN Ret(c, "RatNegotiationError")
       ELSE IF hello.dat = "missing" THEN Ret(c, "MissingDat")
       ELSE IF hello.dat = "unparsable" THEN Ret(c, "InvalidDat")
       ELSE IF verify_token(hello.dat) = 0 THEN Ret(c, "InvalidDat")
       ELSE start_rat_drivers(start_dat_timer(c, verify_token(hello.dat)),
                              prover_mechanism, verifier_mechanism)

(* a slip: a Hello without a common mechanism is answered with a Close *)
action_recv_hello_closing_on_mismatch(f, hello, w) ==
    LET c == cancel(f, "handshake_timer")
        prover_mechanism ==
            calculate_rat_prover_mechanism(hello.expected, supported_attestation_suite)
        verifier_mechanism ==
            calculate_rat_verifier_mechanism(hello.supported, expected_attestation_suite)
        send_close == write(c, IdscpClose("NO_VALID_DAT"), w)
    IN IF prover_mechanism = NoRatMechanismMatch
       THEN Ret(write(c, IdscpClose("ERROR"), w), "RatNegotiationError")
       ELSE IF verifier_mechanism = NoRatMechanismMatch
       THEN Ret(write(c, IdscpClose("ERROR"), w), "RatNegotiationError")
       ELSE IF hello.dat = "missing" THEN Ret(send_close, "MissingDat")
       ELSE IF hello.dat = "unparsable" THEN Ret(send_close, "InvalidDat")
       ELSE IF verify_token(hello.dat) = 0 THEN Ret(send_close, "InvalidDat")
       ELSE start_rat_drivers(start_dat_timer(c, verify_token(hello.dat)),
                              prover_mechanism, verifier_mechanism)

action_recv_hello(f, hello, w) ==
    LET c == cancel(f, "handshake_timer")
        prover_mechanism ==
            calculate_rat_prover_mechanism(hello.expected, supported_attestation_suite)
        verifier_mechanism ==
            calculate_rat_verifier_mechanism(hello.supported, expected_attestation_suite)
        send_close == write(c, IdscpClose("NO_VALID_DAT"), w)
    IN IF prover_mechanism = NoRatMechanismMatch THEN Ret(c, "RatNegotiationError")
       ELSE IF verifier_mechanism = NoRatMechanismMatch THEN Ret(c, "RatNegotiationError")
       ELSE IF hello.dat = "missing" THEN Ret(send_close, "MissingDat")
       ELSE IF hello.dat = "unparsable" THEN Ret(send_close, "InvalidDat")
       ELSE IF verify_token(hello.dat) = 0 THEN Ret(send_close, "InvalidDat")
       ELSE start_rat_drivers(start_dat_timer(c, verify_token(hello.dat)),
                              prover_mechanism, verifier_mechanism)

action_send_data(f, data, w) ==
    Ret(write(f, IdscpData(data, f.next_send_alternating_bit), w), IoResult(w))

(* wait_for_connection_available returns only once set_connection has run; the *)
(* observer is called when the weak connection reference can be upgraded       *)
(* a slip: the bit of the Data is not compared with the expected bit *)
action_recv_data_any_bit(f, data, w) ==
    LET a == [write(f, IdscpAck(data.bit), w)
                 EXCEPT !.expected_alternating_bit = alternate(@)]
    IN IF a.connection = "unset" THEN [a EXCEPT !.blocked = TRUE]
       ELSE IF a.connection = "some" THEN [a EXCEPT !.deliv = Append(@, data.data)]
       ELSE a

action_recv_data(f, data, w) ==
    IF data.bit /= f.expected_alternating_bit
    THEN f
    ELSE LET a == [write(f, IdscpAck(data.bit), w)
                      EXCEPT !.expected_alternating_bit = alternate(@)]
         IN IF a.connection = "unset" THEN [a EXCEPT !.blocked = TRUE]
            ELSE IF a.connection = "some" THEN [a EXCEPT !.deliv = Append(@, data.data)]
            ELSE a

(* a slip: the acknowledged bit is not compared with next_send *)
action_recv_ack_any_bit(f, ack_data) ==
    IF IsActive(f.ack_flag)
    THEN Ret([cancel(f, "ack_timer")
                 EXCEPT !.ack_flag = Inactive,
                        !.next_send_alternating_bit = alternate(@)], "Ok")
    ELSE Ret(f, "AlternatingBitError")

(* a slip: a valid Ack clears the flag but next_send is not alternated *)
action_recv_ack_no_flip(f, ack_data) ==
    IF IsActive(f.ack_flag) /\ ack_data.bit = f.next_send_alternating_bit
    THEN Ret([cancel(f, "ack_timer") EXCEPT !.ack_flag = Inactive], "Ok")
    ELSE Ret(f, "AlternatingBitError")

action_recv_ack(f, ack_data) ==
    IF IsActive(f.ack_flag)
    THEN IF ack_data.bit /= f.next_send_alternating_bit
         THEN Ret(f, "AlternatingBitError")
         ELSE Ret([cancel(f, "ack_timer")
                      EXCEPT !.ack_flag = Inactive,
                             !.next_send_alternating_bit = alternate(@)], "Ok")
    ELSE Ret(f, "AlternatingBitError")

action_re_rat(f, w) ==
    LET c == cancel(f, "rat_timer")
        s == write(c, IdscpReRat, w)
        v == restart_driver(s.rat_verifier)
        fv == [s EXCEPT !.rat_verifier = v.i]
    IN IF ~w THEN Ret(s, "IoError")
       ELSE IF v.r /= "Ok" THEN Ret(fv, "RatError")
       ELSE Ret(start(fv, "verifier_timer"), "Ok")

(* a slip: the prover is restarted but prover_timer is not started *)
action_recv_re_rat_without_timer(f) ==
    LET p == restart_driver(f.rat_prover)
        fp == [f EXCEPT !.rat_prover = p.i]
    IN IF p.r /= "Ok" THEN Ret(fp, "RatError")
       ELSE Ret(fp, "Ok")

action_recv_re_rat(f) ==
    LET p == restart_driver(f.rat_prover)
        fp == [f EXCEPT !.rat_prover = p.i]
    IN IF p.r /= "Ok" THEN Ret(fp, "RatError")
       ELSE Ret(start(fp, "prover_timer"), "Ok")

action_rat_prover_failed(f, w) ==
    write(cancel(f, "prover_timer"), IdscpClose("RAT_PROVER_FAILED"), w)

action_rat_prover_data(f, w) == Ret(write(f, IdscpRatProver, w), IoResult(w))

action_rat_verifier_failed(f, w) ==
    write(cancel(f, "verifier_timer"), IdscpClose("RAT_VERIFIER_FAILED"), w)

action_rat_verifier_data(f, w) == Ret(write(f, IdscpRatVerifier, w), IoResult(w))

(* Err(e) of the interface becomes Err(FsmError::RatError(e)) *)
RatResult(r) == IF r = "Ok" THEN "Ok" ELSE "RatError"

action_delegate_rat_prover(f) == Ret(f, RatResult(write_to_driver(f.rat_verifier)))

action_delegate_rat_verifier(f) == Ret(f, RatResult(write_to_driver(f.rat_prover)))

(* a slip: the new DAT is accepted but handshake_timer keeps running *)
action_recv_dat_keeping_handshake_timer(f, data, w) ==
    LET send_close == write(f, IdscpClose("NO_VALID_DAT"), w)
        d == start_dat_timer(f, verify_token(data.token))
        v == restart_driver(d.rat_verifier)
        fv == [d EXCEPT !.rat_verifier = v.i]
    IN IF data.token = "unparsable" THEN Ret(send_close, "InvalidDat")
       ELSE IF verify_token(data.token) = 0 THEN Ret(send_close, "InvalidDat")
       ELSE IF v.r /= "Ok" THEN Ret(fv, "RatError")
       ELSE Ret(start(fv, "verifier_timer"), "Ok")

(* a slip: dat_timer is started again with a fixed duration, not the token's *)
action_recv_dat_with_fixed_duration(f, data, w) ==
    LET c == cancel(f, "handshake_timer")
        send_close == write(c, IdscpClose("NO_VALID_DAT"), w)
        d == start_dat_timer(c, verify_token(get_token))
        v == restart_driver(d.rat_verifier)
        fv == [d EXCEPT !.rat_verifier = v.i]
    IN IF data.token = "unparsable" THEN Ret(send_close, "InvalidDat")
       ELSE IF verify_token(data.token) = 0 THEN Ret(send_close, "InvalidDat")
       ELSE IF v.r /= "Ok" THEN Ret(fv, "RatError")
       ELSE Ret(start(fv, "verifier_timer"), "Ok")

action_recv_dat(f, data, w) ==
    LET c == cancel(f, "handshake_timer")
        send_close == write(c, IdscpClose("NO_VALID_DAT"), w)
        d == start_dat_timer(c, verify_token(data.token))
        v == restart_driver(d.rat_verifier)
        fv == [d EXCEPT !.rat_verifier = v.i]
    IN IF data.token = "unparsable" THEN Ret(send_close, "InvalidDat")
       ELSE IF verify_token(data.token) = 0 THEN Ret(send_close, "InvalidDat")
       ELSE IF v.r /= "Ok" THEN Ret(fv, "RatError")
       ELSE Ret(start(fv, "verifier_timer"), "Ok")

action_recv_dat_exp(f, w) ==
    LET s == write(f, IdscpDat(get_token), w)
        p == restart_driver(s.rat_prover)
        fp == [s EXCEPT !.rat_prover = p.i]
    IN IF ~w THEN Ret(s, "IoError")
       ELSE IF p.r /= "Ok" THEN Ret(fp, "RatError")
       ELSE Ret(start(fp, "prover_timer"), "Ok")

(* a slip: cleanup leaves ack_timer running *)
cleanup_without_ack_timer(f) ==
    [f EXCEPT !.handshake_timer = FALSE,
              !.dat_timer = FALSE,
              !.rat_timer = FALSE,
              !.verifier_timer = FALSE,
              !.prover_timer = FALSE,
              !.rat_prover = stop_driver(@),
              !.rat_verifier = stop_driver(@),
              !.sc_unlocked = TRUE,
              !.sc_stopped = TRUE]

cleanup(f) ==
    [f EXCEPT !.handshake_timer = FALSE,
              !.dat_timer = FALSE,
              !.rat_timer = FALSE,
              !.verifier_timer = FALSE,
              !.prover_timer = FALSE,
              !.ack_timer = FALSE,
              !.rat_prover = stop_driver(@),
              !.rat_verifier = stop_driver(@),
              !.sc_unlocked = TRUE,
              !.sc_stopped = TRUE]

(* a slip: the observer is notified whether or not a handshake result was published *)
notify_connection_about_close_unconditionally(f) ==
    IF f.connection = "unset" THEN [f EXCEPT !.blocked = TRUE]
    ELSE IF f.connection = "some" THEN [f EXCEPT !.on_close = TRUE]
    ELSE f

notify_connection_about_close(f) ==
    IF f.handshake_result_available
    THEN IF f.connection = "unset" THEN [f EXCEPT !.blocked = TRUE]
         ELSE IF f.connection = "some" THEN [f EXCEPT !.on_close = TRUE]
         ELSE f
    ELSE f

(* ---------------------------- process_event ---------------------------- *)

IsUpper(e, c) == e.src = "Upper" /\ e.cmd = c

IsSc(e, t) == e.src = "Sc" /\ e.msg.type = t

IsRatProver(e, m) == e.src = "RatProver" /\ e.msg = m

IsRatVerifier(e, m) == e.src = "RatVerifier" /\ e.msg = m

IsTimeout(e, k) == e.src = "Timer" /\ e.kind = k

(* cleanup(); notify_connection_about_close(); current_state = Closed(Locked); *)
(* the assignment is not reached while the notification waits                  *)
close_and_notify(f, r) ==
    LET n == notify_connection_about_close(cleanup(f))
    IN IF n.blocked THEN Ret(n, r)
       ELSE Ret([n EXCEPT !.current_state = ClosedLocked], r)

(* a slip: an event without a transition is treated as a fatal error *)
unknown_transition_closing(f) == close_and_notify(f, "UnknownTransition")

(* the catch-all arms: no transition available, stay in the state *)
unknown_transition(f) == Ret(f, "UnknownTransition")

(* a slip: Stop closes like every other close and notifies the observer *)
stop_and_lock_notifying(f, w) == close_and_notify(action_stop(f, w), "Ok")

(* action_stop(); cleanup(); current_state = Closed(Locked), observer not notified *)
stop_and_lock(f, w) ==
    Ret([cleanup(action_stop(f, w)) EXCEPT !.current_state = ClosedLocked], "Ok")

(* match action() { Err(e) => close, Ok(_) => then } *)
on_result(x, then) == IF x.r = "Ok" THEN Ret(then, "Ok") ELSE close_and_notify(x.f, x.r)

goto(f, s) == [f EXCEPT !.current_state = s]

(* the Ack arm of the states that wait for attestation or a DAT: no state change *)
ignore_ack_result(f, ack_data) == Ret(action_recv_ack(f, ack_data).f, "Ok")

(* a slip: the pending payload is forgotten when the attestation completes *)
connected_state_ignoring_ack_flag(f) == goto(f, Established)

(* a slip: WaitForAck is re-entered without restarting ack_timer *)
connected_state_without_timer(f) ==
    IF IsActive(f.ack_flag) THEN goto(f, WaitForAck) ELSE goto(f, Established)

(* ProverOK / VerifierOK completing the attestation *)
connected_state(f) ==
    IF IsActive(f.ack_flag) THEN goto(start(f, "ack_timer"), WaitForAck)
    ELSE goto(f, Established)

(* a slip: a command rejected before the handshake locks the FSM *)
closed_unlocked_locking_on_misuse(f, e, w) ==
    IF IsUpper(e, "StartHandshake")
    THEN LET x == action_start_handshake(f, w)
         IN on_result(x, goto(start(x.f, "handshake_timer"), WaitForHello))
    ELSE IF e.src = "Upper" THEN Ret(goto(f, ClosedLocked), "FsmNotStarted")
    ELSE unknown_transition(f)

closed_unlocked(f, e, w) ==
    IF IsUpper(e, "StartHandshake")
    THEN LET x == action_start_handshake(f, w)
         IN on_result(x, goto(start(x.f, "handshake_timer"), WaitForHello))
    ELSE IF e.src = "Upper" THEN Ret(f, "FsmNotStarted")
    ELSE unknown_transition(f)

wait_for_hello(f, e, w) ==
    CASE IsUpper(e, "Stop") -> stop_and_lock(f, w)
      [] IsUpper(e, "Data") -> Ret(f, "NotConnected")
      [] IsUpper(e, "RepeatRat") -> Ret(f, "Ok")
      [] IsTimeout(e, "HandshakeTimeout") ->
            close_and_notify(handshake_timeout_handler(f, w), "Ok")
      [] IsSc(e, "Error") -> close_and_notify(f, "Ok")
      [] IsSc(e, "Close") -> close_and_notify(f, "Ok")
      [] IsSc(e, "Hello") ->
            LET x == action_recv_hello(f, e.msg, w) IN on_result(x, goto(x.f, WaitForRat))
      [] OTHER -> unknown_transition(f)

(* a slip: ProverOK in WaitForRat handled as in WaitForRatProver *)
prover_ok_in_wait_for_rat_connects(f) == Ret(connected_state(cancel(f, "prover_timer")), "Ok")

(* FromRatProver(OK) in WaitForRat *)
prover_ok_in_wait_for_rat(f) == Ret(goto(cancel(f, "prover_timer"), WaitForRatVerifier), "Ok")

wait_for_rat(f, e, w) ==
    CASE IsUpper(e, "Stop") -> stop_and_lock(f, w)
      [] IsUpper(e, "Data") -> Ret(f, "NotConnected")
      [] IsUpper(e, "RepeatRat") -> Ret(f, "Ok")
      [] IsTimeout(e, "HandshakeTimeout") ->
            close_and_notify(handshake_timeout_handler(f, w), "Ok")
      [] IsTimeout(e, "DatTimeout") ->
            LET x == dat_timeout_handler(f, w)
            IN on_result(x, goto(start(x.f, "handshake_timer"), WaitForDatAndRat))
      [] IsRatProver(e, "OK") -> prover_ok_in_wait_for_rat(f)
      [] IsRatProver(e, "Failed") -> close_and_notify(action_rat_prover_failed(f, w), "Ok")
      [] IsRatProver(e, "RawData") ->
            LET x == action_rat_prover_data(f, w) IN on_result(x, x.f)
      [] IsRatVerifier(e, "OK") ->
            Ret(goto(start(cancel(f, "verifier_timer"), "rat_timer"), WaitForRatProver), "Ok")
      [] IsRatVerifier(e, "Failed") -> close_and_notify(action_rat_verifier_failed(f, w), "Ok")
      [] IsRatVerifier(e, "RawData") ->
            LET x == action_rat_verifier_data(f, w) IN on_result(x, x.f)
      [] IsSc(e, "Error") -> close_and_notify(f, "Ok")
      [] IsSc(e, "Close") -> close_and_notify(f, "Ok")
      [] IsSc(e, "DatExp") ->
            LET x == action_recv_dat_exp(f, w) IN on_result(x, goto(x.f, WaitForRat))
      [] IsSc(e, "RatProver") ->
            LET x == action_delegate_rat_prover(f) IN on_result(x, x.f)
      [] IsSc(e, "RatVerifier") ->
            LET x == action_delegate_rat_verifier(f) IN on_result(x, x.f)
      [] IsSc(e, "Ack") -> ignore_ack_result(f, e.msg)
      [] OTHER -> unknown_transition(f)

wait_for_rat_prover(f, e, w) ==
    CASE IsUpper(e, "Stop") -> stop_and_lock(f, w)
      [] IsUpper(e, "RepeatRat") \/ IsTimeout(e, "RatTimeout") ->
            LET x == action_re_rat(f, w) IN on_result(x, goto(x.f, WaitForRat))
      [] IsUpper(e, "Data") -> Ret(f, "NotConnected")
      [] IsTimeout(e, "HandshakeTimeout") ->
            close_and_notify(handshake_timeout_handler(f, w), "Ok")
      [] IsTimeout(e, "DatTimeout") ->
            LET x == dat_timeout_handler(f, w)
            IN on_result(x, goto(start(x.f, "handshake_timer"), WaitForDatAndRat))
      [] IsRatProver(e, "OK") -> Ret(connected_state(cancel(f, "prover_timer")), "Ok")
      [] IsRatProver(e, "Failed") -> close_and_notify(action_rat_prover_failed(f, w), "Ok")
      [] IsRatProver(e, "RawData") ->
            LET x == action_rat_prover_data(f, w) IN on_result(x, x.f)
      [] IsSc(e, "Error") -> close_and_notify(f, "Ok")
      [] IsSc(e, "Close") -> close_and_notify(f, "Ok")
      [] IsSc(e, "DatExp") ->
            LET x == action_recv_dat_exp(f, w) IN on_result(x, goto(x.f, WaitForRatProver))
      [] IsSc(e, "ReRat") ->
            LET x == action_recv_re_rat(f) IN on_result(x, goto(x.f, WaitForRatProver))
      [] IsSc(e, "RatVerifier") ->
            LET x == action_delegate_rat_verifier(f) IN on_result(x, x.f)
      [] IsSc(e, "Ack") -> ignore_ack_result(f, e.msg)
      [] OTHER -> unknown_transition(f)

wait_for_rat_verifier(f, e, w) ==
    CASE IsUpper(e, "Stop") -> stop_and_lock(f, w)
      [] IsUpper(e, "Data") -> Ret(f, "NotConnected")
      [] IsUpper(e, "RepeatRat") -> Ret(f, "Ok")
      [] IsTimeout(e, "HandshakeTimeout") ->
            close_and_notify(handshake_timeout_handler(f, w), "Ok")
      [] IsTimeout(e, "DatTimeout") ->
            LET x == dat_timeout_handler(f, w)
            IN on_result(x, goto(start(x.f, "handshake_timer"), WaitForDatAndRatVerifier))
      [] IsRatVerifier(e, "OK") ->
            Ret(connected_state(start(cancel(f, "verifier_timer"), "rat_timer")), "Ok")
      [] IsRatVerifier(e, "Failed") -> close_and_notify(action_rat_verifier_failed(f, w), "Ok")
      [] IsRatVerifier(e, "RawData") ->
            LET x == action_rat_verifier_data(f, w) IN on_result(x, x.f)
      [] IsSc(e, "Error") -> close_and_notify(f, "Ok")
      [] IsSc(e, "Close") -> close_and_notify(f, "Ok")
      [] IsSc(e, "DatExp") ->
            LET x == action_recv_dat_exp(f, w) IN on_result(x, goto(x.f, WaitForRat))
      [] IsSc(e, "RatProver") ->
            LET x == action_delegate_rat_prover(f) IN on_result(x, x.f)
      [] IsSc(e, "ReRat") ->
            LET x == action_recv_re_rat(f) IN on_result(x, goto(x.f, WaitForRat))
      [] IsSc(e, "Ack") -> ignore_ack_result(f, e.msg)
      [] OTHER -> unknown_transition(f)

wait_for_dat_and_rat(f, e, w) ==
    CASE IsUpper(e, "Stop") -> stop_and_lock(f, w)
      [] IsUpper(e, "Data") -> Ret(f, "NotConnected")
      [] IsUpper(e, "RepeatRat") -> Ret(f, "Ok")
      [] IsTimeout(e, "HandshakeTimeout") ->
            close_and_notify(handshake_timeout_handler(f, w), "Ok")
      [] IsRatProver(e, "OK") ->
            Ret(goto(cancel(f, "prover_timer"), WaitForDatAndRatVerifier), "Ok")
      [] IsRatProver(e, "Failed") -> close_and_notify(action_rat_prover_failed(f, w), "Ok")
      [] IsRatProver(e, "RawData") ->
            LET x == action_rat_prover_data(f, w) IN on_result(x, x.f)
      [] IsSc(e, "Error") -> close_and_notify(f, "Ok")
      [] IsSc(e, "Close") -> close_and_notify(f, "Ok")
      [] IsSc(e, "DatExp") ->
            LET x == action_recv_dat_exp(f, w) IN on_result(x, goto(x.f, WaitForDatAndRat))
      [] IsSc(e, "Dat") ->
            LET x == action_recv_dat(f, e.msg, w) IN on_result(x, goto(x.f, WaitForRat))
      [] IsSc(e, "RatVerifier") ->
            LET x == action_delegate_rat_verifier(f) IN on_result(x, x.f)
      [] IsSc(e, "ReRat") ->
            LET x == action_recv_re_rat(f) IN on_result(x, goto(x.f, WaitForDatAndRat))
      [] IsSc(e, "Ack") -> ignore_ack_result(f, e.msg)
      [] OTHER -> unknown_transition(f)

wait_for_dat_and_rat_verifier(f, e, w) ==
    CASE IsUpper(e, "Stop") -> stop_and_lock(f, w)
      [] IsUpper(e, "Data") -> Ret(f, "NotConnected")
      [] IsUpper(e, "RepeatRat") -> Ret(f, "Ok")
      [] IsTimeout(e, "HandshakeTimeout") ->
            close_and_notify(handshake_timeout_handler(f, w), "Ok")
      [] IsSc(e, "Error") -> close_and_notify(f, "Ok")
      [] IsSc(e, "Close") -> close_and_notify(f, "Ok")
      [] IsSc(e, "DatExp") ->
            LET x == action_recv_dat_exp(f, w) IN on_result(x, goto(x.f, WaitForDatAndRat))
      [] IsSc(e, "Dat") ->
            LET x == action_recv_dat(f, e.msg, w)
            IN on_result(x, goto(x.f, WaitForRatVerifier))
      [] IsSc(e, "ReRat") ->
            LET x == action_recv_re_rat(f) IN on_result(x, goto(x.f, WaitForDatAndRat))
      [] IsSc(e, "Ack") -> ignore_ack_result(f, e.msg)
      [] OTHER -> unknown_transition(f)

(* a slip: the buffered payload is sent again but ack_timer is not started again *)
ack_timeout_without_restart(f, w) ==
    IF IsActive(f.ack_flag)
    THEN LET x == action_send_data(f, f.ack_flag[1], w) IN on_result(x, x.f)
    ELSE Ret(f, "IdscpDataNotCached")

(* a slip: a missing buffered payload closes the connection like a failed send *)
ack_timeout_closing_when_not_cached(f, w) ==
    IF IsActive(f.ack_flag)
    THEN LET x == action_send_data(f, f.ack_flag[1], w)
         IN on_result(x, start(x.f, "ack_timer"))
    ELSE close_and_notify(f, "IdscpDataNotCached")

(* AckTimeout in WaitForAck *)
ack_timeout_in_wait_for_ack(f, w) ==
    IF IsActive(f.ack_flag)
    THEN LET x == action_send_data(f, f.ack_flag[1], w)
         IN on_result(x, start(x.f, "ack_timer"))
    ELSE Ret(f, "IdscpDataNotCached")

(* a slip: a second payload is sent while the first one is unacknowledged *)
user_data_in_wait_for_ack_sending(f, e, w) ==
    LET x == action_send_data(f, e.data, w)
    IN on_result(x, [start(x.f, "ack_timer") EXCEPT !.ack_flag = Active(e.data)])

(* user Data in WaitForAck *)
user_data_in_wait_for_ack(f, e, w) == Ret(f, "WouldBlock")

wait_for_ack(f, e, w) ==
    CASE IsUpper(e, "Stop") -> stop_and_lock(f, w)
      [] IsUpper(e, "RepeatRat") \/ IsTimeout(e, "RatTimeout") ->
            LET x == action_re_rat(f, w)
            IN on_result(x, goto(cancel(x.f, "ack_timer"), WaitForRatVerifier))
      [] IsUpper(e, "Data") -> user_data_in_wait_for_ack(f, e, w)
      [] IsTimeout(e, "DatTimeout") ->
            LET x == dat_timeout_handler(f, w)
            IN on_result(x, goto(start(cancel(x.f, "ack_timer"), "handshake_timer"),
                                 WaitForDatAndRatVerifier))
      [] IsTimeout(e, "AckTimeout") -> ack_timeout_in_wait_for_ack(f, w)
      [] IsSc(e, "Error") -> close_and_notify(f, "Ok")
      [] IsSc(e, "Close") -> close_and_notify(f, "Ok")
      [] IsSc(e, "DatExp") ->
            LET x == action_recv_dat_exp(f, w)
            IN on_result(x, goto(cancel(x.f, "ack_timer"), WaitForRatProver))
      [] IsSc(e, "ReRat") ->
            LET x == action_recv_re_rat(f)
            IN on_result(x, goto(cancel(x.f, "ack_timer"), WaitForRatProver))
      [] IsSc(e, "Data") -> Ret(action_recv_data(f, e.msg, w), "Ok")
      [] IsSc(e, "Ack") ->
            LET x == action_recv_ack(f, e.msg)
            IN IF x.r = "Ok" THEN Ret(goto(x.f, Established), "Ok") ELSE Ret(x.f, "Ok")
      [] OTHER -> unknown_transition(f)

established(f, e, w) ==
    CASE IsUpper(e, "Stop") -> stop_and_lock(f, w)
      [] IsUpper(e, "RepeatRat") \/ IsTimeout(e, "RatTimeout") ->
            LET x == action_re_rat(f, w) IN on_result(x, goto(x.f, WaitForRatVerifier))
      [] IsUpper(e, "Data") ->
            LET x == action_send_data(f, e.data, w)
            IN on_result(x, goto([start(x.f, "ack_timer")
                                     EXCEPT !.ack_flag = Active(e.data),
                                            !.sent_bit = f.next_send_alternating_bit],
                                 WaitForAck))
      [] IsTimeout(e, "DatTimeout") ->
            LET x == dat_timeout_handler(f, w)
            IN on_result(x, goto(start(x.f, "handshake_timer"), WaitForDatAndRatVerifier))
      [] IsSc(e, "Error") -> close_and_notify(f, "Ok")
      [] IsSc(e, "Close") -> close_and_notify(f, "Ok")
      [] IsSc(e, "DatExp") ->
            LET x == action_recv_dat_exp(f, w) IN on_result(x, goto(x.f, WaitForRatProver))
      [] IsSc(e, "ReRat") ->
            LET x == action_recv_re_rat(f) IN on_result(x, goto(x.f, WaitForRatProver))
      [] IsSc(e, "Data") -> Ret(action_recv_data(f, e.msg, w), "Ok")
      [] OTHER -> unknown_transition(f)

(* a slip: Closed(_) matched without looking at the lock status *)
transition_ignoring_lock(f, e, w) ==
    CASE f.current_state \in {ClosedLocked, ClosedUnlocked} -> closed_unlocked(f, e, w)
      [] f.current_state = WaitForHello -> wait_for_hello(f, e, w)
      [] f.current_state = WaitForRat -> wait_for_rat(f, e, w)
      [] f.current_state = WaitForRatProver -> wait_for_rat_prover(f, e, w)
      [] f.current_state = WaitForRatVerifier -> wait_for_rat_verifier(f, e, w)
      [] f.current_state = WaitForDatAndRat -> wait_for_dat_and_rat(f, e, w)
      [] f.current_state = WaitForDatAndRatVerifier -> wait_for_dat_and_rat_verifier(f, e, w)
      [] f.current_state = WaitForAck -> wait_for_ack(f, e, w)
      [] f.current_state = Established -> established(f, e, w)

(* a slip: the prover-awaiting arm takes peer Data as the connected states do *)
transition_receiving_data_while_attesting(f, e, w) ==
    CASE f.current_state = ClosedLocked -> Ret(f, "FsmLocked")
      [] f.current_state = ClosedUnlocked -> closed_unlocked(f, e, w)
      [] f.current_state = WaitForHello -> wait_for_hello(f, e, w)
      [] f.current_state = WaitForRat -> wait_for_rat(f, e, w)
      [] f.current_state = WaitForRatProver ->
            IF IsSc(e, "Data") THEN Ret(action_recv_data(f, e.msg, w), "Ok")
            ELSE wait_for_rat_prover(f, e, w)
      [] f.current_state = WaitForRatVerifier -> wait_for_rat_verifier(f, e, w)
      [] f.current_state = WaitForDatAndRat -> wait_for_dat_and_rat(f, e, w)
      [] f.current_state = WaitForDatAndRatVerifier -> wait_for_dat_and_rat_verifier(f, e, w)
      [] f.current_state = WaitForAck -> wait_for_ack(f, e, w)
      [] f.current_state = Established -> established(f, e, w)

(* the match on current_state *)
transition(f, e, w) ==
    CASE f.current_state = ClosedLocked -> Ret(f, "FsmLocked")
      [] f.current_state = ClosedUnlocked -> closed_unlocked(f, e, w)
      [] f.current_state = WaitForHello -> wait_for_hello(f, e, w)
      [] f.current_state = WaitForRat -> wait_for_rat(f, e, w)
      [] f.current_state = WaitForRatProver -> wait_for_rat_prover(f, e, w)
      [] f.current_state = WaitForRatVerifier -> wait_for_rat_verifier(f, e, w)
      [] f.current_state = WaitForDatAndRat -> wait_for_dat_and_rat(f, e, w)
      [] f.current_state = WaitForDatAndRatVerifier -> wait_for_dat_and_rat_verifier(f, e, w)
      [] f.current_state = WaitForAck -> wait_for_ack(f, e, w)
      [] f.current_state = Established -> established(f, e, w)

(* a slip: the result is written whenever the state is final, not only the first time *)
set_handshake_result_every_time(f) ==
    IF f.current_state = Established
    THEN [f EXCEPT !.handshake_result = "Successful",
                   !.handshake_result_available = TRUE,
                   !.hs_writes = @ + 1]
    ELSE IF f.current_state = ClosedLocked
         THEN [f EXCEPT !.handshake_result = "Failed",
                        !.handshake_result_available = TRUE,
                        !.hs_writes = @ + 1]
    ELSE f

(* set handshake result: written while handshake_result_available is false *)
set_handshake_result(f) ==
    IF f.handshake_result_available THEN f
    ELSE IF f.current_state = Established
         THEN [f EXCEPT !.handshake_result = "Successful",
                        !.handshake_result_available = TRUE,
                        !.hs_writes = @ + 1]
    ELSE IF f.current_state = ClosedLocked
         THEN [f EXCEPT !.handshake_result = "Failed",
                        !.handshake_result_available = TRUE,
                        !.hs_writes = @ + 1]
    ELSE f

(* process_event with the write outcome w of the secure channel; a call that waits *)
(* in wait_for_connection_available has not returned: res is "Blocked"            *)
process_event(f0, e, w) ==
    LET f == [f0 EXCEPT !.out = <<>>, !.deliv = <<>>, !.on_close = FALSE, !.res = "Ok",
                        !.dat_fresh = IF IsTimeout(e, "DatTimeout") THEN FALSE ELSE @]
        t == transition(f, e, w)
    IN IF t.f.blocked THEN [t.f EXCEPT !.res = "Blocked"]
       ELSE [set_handshake_result(t.f) EXCEPT !.res = t.r]

(* ----------------------- one endpoint, any peer ------------------------ *)

Stop == FromUpper("Stop")

PeerHellos == {IdscpHello(d, sp[1], sp[2]) : d \in HelloDats, sp \in SuitePairs}

PeerMessages(t) ==
    CASE t = "Hello" -> PeerHellos
      [] t = "Close" -> {IdscpClose(c) : c \in CloseCauses}
      [] t = "Dat" -> {IdscpDat(k) : k \in DatTokens}
      [] t = "DatExp" -> {IdscpDatExpired}
      [] t = "RatProver" -> {IdscpRatProver}
      [] t = "RatVerifier" -> {IdscpRatVerifier}
      [] t = "ReRat" -> {IdscpReRat}
      [] t = "Data" -> {IdscpData(d, b) : d \in Payloads, b \in Bits}
      [] t = "Ack" -> {IdscpAck(b) : b \in Bits}
      [] t = "Error" -> {ScError}

MessageTypes == {"Hello", "Close", "Dat", "DatExp", "RatProver", "RatVerifier", "ReRat",
                 "Data", "Ack", "Error"}

UserEvents == {FromUpper("StartHandshake"), FromUpper("Stop"), FromUpper("RepeatRat")}
              \cup {FromUpperData(d) : d \in Payloads}

ScEvents == {FromSecureChannel(m) : m \in UNION {PeerMessages(t) : t \in MessageTypes}}

RatEvents == {FromRatProver(m) : m \in RatMessage} \cup {FromRatVerifier(m) : m \in RatMessage}

TimerEvents == {Timeout(k) : k \in TimeoutKinds}

(* every value of FsmEvent *)
FsmEvent == UserEvents \cup ScEvents \cup RatEvents \cup TimerEvents

NetIdle == /\ peers = <<>>
           /\ chan = <<>>
           /\ accepted = <<>>
           /\ delivered = <<>>

Init == /\ fsm = create
        /\ NetIdle

(* every event source takes the FSM lock, which a waiting call keeps *)
Feed(e, w) == /\ ~fsm.blocked
              /\ fsm' = process_event(fsm, e, w)
              /\ UNCHANGED <<peers, chan, accepted, delivered>>

UserStartHandshake == \E w \in BOOLEAN : Feed(FromUpper("StartHandshake"), w)

UserStop == \E w \in BOOLEAN : Feed(FromUpper("Stop"), w)

UserRepeatRat == \E w \in BOOLEAN : Feed(FromUpper("RepeatRat"), w)

UserData == \E d \in Payloads, w \in BOOLEAN : Feed(FromUpperData(d), w)

(* the reader delivers peer messages once unlock() has opened it *)
ScDeliver(t) == /\ fsm.sc_unlocked
                /\ \E m \in PeerMessages(t), w \in BOOLEAN : Feed(FromSecureChannel(m), w)

(* The listener thread takes the FSM lock, then the lock of its is_cancelled flag, *)
(* and keeps both while process_event runs.  A handler that reaches cleanup stops  *)
(* the listener's own driver: stop_driver takes the content and calls              *)
(* DriverListener::stop, which locks is_cancelled again on the thread that holds   *)
(* it.  That second lock never returns (it waits forever, or panics and poisons    *)
(* the FSM lock), so the call stays where cleanup had come to: timers cancelled,   *)
(* the drivers before the listener's own stopped, its own content taken, the       *)
(* secure channel, current_state and the handshake result untouched; res is       *)
(* "Relock".                                                                       *)
listen(role, f, e, w) ==
    LET g == process_event(f, e, w)
    IN IF f[role].content /\ ~g[role].content
       THEN [g EXCEPT !.blocked = TRUE,
                      !.res = "Relock",
                      !.on_close = FALSE,
                      !.current_state = f.current_state,
                      !.handshake_result = f.handshake_result,
                      !.handshake_result_available = f.handshake_result_available,
                      !.hs_writes = f.hs_writes,
                      !.sc_unlocked = f.sc_unlocked,
                      !.sc_stopped = f.sc_stopped,
                      !.rat_verifier = IF role = "rat_prover" THEN f.rat_verifier ELSE @]
       ELSE g

(* a worker message reaches the FSM only through a listener that is not cancelled; *)
(* OK or Failed ends the worker run                                               *)
ProverListener ==
    /\ ~fsm.blocked
    /\ ListenerDelivers(fsm.rat_prover)
    /\ \E m \in RatMessage, w \in BOOLEAN :
          /\ fsm' = listen("rat_prover",
                       [fsm EXCEPT !.rat_prover.run =
                           IF m = "OK" THEN "ok" ELSE IF m = "Failed" THEN "failed" ELSE @],
                       FromRatProver(m), w)
    /\ UNCHANGED <<peers, chan, accepted, delivered>>

VerifierListener ==
    /\ ~fsm.blocked
    /\ ListenerDelivers(fsm.rat_verifier)
    /\ \E m \in RatMessage, w \in BOOLEAN :
          /\ fsm' = listen("rat_verifier",
                       [fsm EXCEPT !.rat_verifier.run =
                           IF m = "OK" THEN "ok" ELSE IF m = "Failed" THEN "failed" ELSE @],
                       FromRatVerifier(m), w)
    /\ UNCHANGED <<peers, chan, accepted, delivered>>

(* a scheduled timer expires and injects its event; it is then no longer scheduled *)
TimerExpires(t) ==
    /\ ~fsm.blocked
    /\ fsm[t]
    /\ \E w \in BOOLEAN : fsm' = process_event(cancel(fsm, t), TimerEvent(t), w)
    /\ UNCHANGED <<peers, chan, accepted, delivered>>

(* set_connection(Some(c)) after a successful handshake, set_connection(None) *)
(* after a failed one; it needs the FSM lock                                    *)
set_connection(f) ==
    [f EXCEPT !.connection = IF f.handshake_result = "Successful" THEN "some" ELSE "none"]

SetConnection ==
    /\ ~fsm.blocked
    /\ fsm.handshake_result /= "NotAvailable"
    /\ fsm.connection = "unset"
    /\ fsm' = set_connection(fsm)
    /\ UNCHANGED <<peers, chan, accepted, delivered>>

(* the upper layer drops its connection object: the weak reference dies *)
ConnectionDropped ==
    /\ fsm.connection = "some"
    /\ fsm' = [fsm EXCEPT !.connection = "dropped"]
    /\ UNCHANGED <<peers, chan, accepted, delivered>>

Next == \/ UserStartHandshake
        \/ UserStop
        \/ UserRepeatRat
        \/ UserData
        \/ \E t \in MessageTypes : ScDeliver(t)
        \/ ProverListener
        \/ VerifierListener
        \/ \E t \in TimerNames : TimerExpires(t)
        \/ SetConnection
        \/ ConnectionDropped

Spec == Init /\ [][Next]_vars

(* ------------------- the FSM as the unit tests set it up ---------------- *)

AckFlags == {Inactive} \cup {Active(d) : d \in Payloads}

(* create_test_fsm(state, ack_flag, next_send, expected): a created FSM with both *)
(* dummy drivers started, set_connection(None) called and the four fields set     *)
create_test_fsm(state, ack_flag, next_send_alternating_bit, expected_alternating_bit) ==
    [create EXCEPT !.rat_prover = start_driver(@, "A", prover_registry).i,
                   !.rat_verifier = start_driver(@, "A", verifier_registry).i,
                   !.connection = "none",
                   !.current_state = state,
                   !.ack_flag = ack_flag,
                   !.next_send_alternating_bit = next_send_alternating_bit,
                   !.expected_alternating_bit = expected_alternating_bit,
                   !.sent_bit = next_send_alternating_bit]

TestInit == /\ \E state \in FsmState, ack_flag \in AckFlags, n \in Bits, x \in Bits :
                  fsm = create_test_fsm(state, ack_flag, n, x)
            /\ NetIdle

(* the tests call process_event directly; TestSc accepts every write *)
TestProcessEvent == /\ \E e \in FsmEvent : fsm' = process_event(fsm, e, TRUE)
                    /\ UNCHANGED <<peers, chan, accepted, delivered>>

TestNext == TestProcessEvent

TestSpec == TestInit /\ [][TestNext]_vars

(* ------------------- two endpoints over FIFO channels ------------------- *)

Endpoints == {1, 2}

(* the endpoints whose upper layer sends payloads *)
Senders == {1}

other(p) == 3 - p

(* what an endpoint keeps between two calls of process_event *)
quiet(g) == [g EXCEPT !.out = <<>>, !.deliv = <<>>, !.on_close = FALSE, !.res = "Ok"]

NetInit == /\ fsm = create
           /\ peers = [p \in Endpoints |-> create]
           /\ chan = [p \in Endpoints |-> <<>>]
           /\ accepted = [p \in Endpoints |-> <<>>]
           /\ delivered = [p \in Endpoints |-> <<>>]

(* endpoint p has made the call that left it as g: the messages it wrote are in    *)
(* flight to the peer, in order, and the payloads given to on_message are received *)
NetStep(p, g, consumed) ==
    /\ Len(chan[other(p)]) + Len(g.out) <= MaxChan
    /\ peers' = [peers EXCEPT ![p] = quiet(g)]
    /\ chan' = [q \in Endpoints |->
                   IF q = p THEN (IF consumed THEN Tail(chan[q]) ELSE chan[q])
                   ELSE chan[q] \o g.out]
    /\ delivered' = [delivered EXCEPT ![p] = @ \o g.deliv]
    /\ UNCHANGED fsm

NetFeed(p, e, w) == /\ ~peers[p].blocked
                    /\ NetStep(p, process_event(peers[p], e, w), FALSE)
                    /\ UNCHANGED accepted

NetUserStartHandshake(p) == NetFeed(p, FromUpper("StartHandshake"), TRUE)

NetUserRepeatRat(p) == NetFeed(p, FromUpper("RepeatRat"), TRUE)

(* send(d) of the upper layer; the payload is accepted when the call succeeds.  *)
(* The FSM does not look into a payload: the k-th payload sent is k, so that a  *)
(* repeated or reordered delivery shows                                         *)
NetUserData(p) ==
    /\ p \in Senders
    /\ ~peers[p].blocked
    /\ Len(accepted[p]) < MaxSend
    /\ LET d == Len(accepted[p]) + 1
           g == process_event(peers[p], FromUpperData(d), TRUE)
       IN /\ NetStep(p, g, FALSE)
          /\ accepted' = [accepted EXCEPT ![p] = IF g.res = "Ok" THEN Append(@, d) ELSE @]

(* the reader of p takes the oldest message in flight to p; the write of the *)
(* answer may fail, every other write of NetSpec succeeds                    *)
NetReceive(p) ==
    /\ ~peers[p].blocked
    /\ peers[p].sc_unlocked
    /\ chan[p] /= <<>>
    /\ \E w \in BOOLEAN :
          NetStep(p, process_event(peers[p], FromSecureChannel(Head(chan[p])), w), TRUE)
    /\ UNCHANGED accepted

(* the workers of a run that ends well; what they exchange on the way is not sent *)
NetRatMessage == {"OK"}

NetProverListener(p) ==
    /\ ~peers[p].blocked
    /\ ListenerDelivers(peers[p].rat_prover)
    /\ \E m \in NetRatMessage :
          NetStep(p, process_event(
                        [peers[p] EXCEPT !.rat_prover.run =
                            IF m = "OK" THEN "ok" ELSE IF m = "Failed" THEN "failed" ELSE @],
                        FromRatProver(m), TRUE), FALSE)
    /\ UNCHANGED accepted

NetVerifierListener(p) ==
    /\ ~peers[p].blocked
    /\ ListenerDelivers(peers[p].rat_verifier)
    /\ \E m \in NetRatMessage :
          NetStep(p, process_event(
                        [peers[p] EXCEPT !.rat_verifier.run =
                            IF m = "OK" THEN "ok" ELSE IF m = "Failed" THEN "failed" ELSE @],
                        FromRatVerifier(m), TRUE), FALSE)
    /\ UNCHANGED accepted

NetTimerExpires(p, t) ==
    /\ ~peers[p].blocked
    /\ peers[p][t]
    /\ NetStep(p, process_event(cancel(peers[p], t), TimerEvent(t), TRUE), FALSE)
    /\ UNCHANGED accepted

NetSetConnection(p) ==
    /\ ~peers[p].blocked
    /\ peers[p].handshake_result /= "NotAvailable"
    /\ peers[p].connection = "unset"
    /\ peers' = [peers EXCEPT ![p] = set_connection(@)]
    /\ UNCHANGED <<fsm, chan, accepted, delivered>>

NetNext == \E p \in Endpoints :
              \/ NetUserStartHandshake(p)
              \/ NetUserRepeatRat(p)
              \/ NetUserData(p)
              \/ NetReceive(p)
              \/ NetProverListener(p)
              \/ NetVerifierListener(p)
              \/ \E t \in TimerNames : NetTimerExpires(p, t)
              \/ NetSetConnection(p)

NetSpec == NetInit /\ [][NetNext]_vars

(* ------------- two endpoints that only shake hands, fairly ------------- *)

(* Both upper layers start the handshake, every write to the secure channel      *)
(* succeeds, no timer expires, nobody stops or re-attests.  A worker is a thread *)
(* of its own: it emits messages while it runs, emits OK and returns from        *)
(* execute, which drops its receiver; the listener thread hands the OK to the    *)
(* FSM when it gets the FSM lock.  accepted[p] counts the messages the workers   *)
(* of p have emitted.                                                            *)
RatRoles == {"rat_prover", "rat_verifier"}

RatEvent(role, m) == IF role = "rat_prover" THEN FromRatProver(m) ELSE FromRatVerifier(m)

HsInit == /\ fsm = create
          /\ peers = [p \in Endpoints |-> create]
          /\ chan = [p \in Endpoints |-> <<>>]
          /\ accepted = [p \in Endpoints |-> 0]
          /\ delivered = [p \in Endpoints |-> <<>>]

(* the reader of p takes the oldest message in flight to p *)
HsReceive(p) ==
    /\ ~peers[p].blocked
    /\ peers[p].sc_unlocked
    /\ chan[p] /= <<>>
    /\ NetStep(p, process_event(peers[p], FromSecureChannel(Head(chan[p])), TRUE), TRUE)
    /\ UNCHANGED accepted

(* a running worker emits a message for its counterpart and the listener hands *)
(* it to the FSM                                                               *)
HsWorkerSends(p, role) ==
    /\ ~peers[p].blocked
    /\ ListenerDelivers(peers[p][role])
    /\ accepted[p] < MaxSent
    /\ NetStep(p, listen(role, peers[p], RatEvent(role, "RawData"), TRUE), FALSE)
    /\ accepted' = [accepted EXCEPT ![p] = @ + 1]

(* the worker emits OK and returns from execute *)
HsWorkerEnds(p, role) ==
    /\ peers[p][role].run = "running"
    /\ peers' = [peers EXCEPT ![p][role].run = "done"]
    /\ UNCHANGED <<fsm, chan, accepted, delivered>>

(* the listener of a run that is not cancelled hands the OK to the FSM *)
HsListener(p, role) ==
    /\ ~peers[p].blocked
    /\ peers[p][role].content
    /\ peers[p][role].run = "done"
    /\ NetStep(p, listen(role, [peers[p] EXCEPT ![role].run = "ok"],
                         RatEvent(role, "OK"), TRUE), FALSE)
    /\ UNCHANGED accepted

HsNext == \E p \in Endpoints :
             \/ NetUserStartHandshake(p)
             \/ HsReceive(p)
             \/ \E role \in RatRoles :
                   \/ HsWorkerSends(p, role)
                   \/ HsWorkerEnds(p, role)
                   \/ HsListener(p, role)

(* every thread that can take a step eventually takes it; a worker need not send *)
HsFairness == \A p \in Endpoints :
                 /\ WF_vars(NetUserStartHandshake(p))
                 /\ WF_vars(HsReceive(p))
                 /\ \A role \in RatRoles :
                       /\ WF_vars(HsWorkerEnds(p, role))
                       /\ WF_vars(HsListener(p, role))

HsSpec == HsInit /\ [][HsNext]_vars /\ HsFairness

(* ----------------------- mechanism negotiation alone -------------------- *)

RatSuiteNames == {"A", "B", "C"}

RECURSIVE SuiteLists(_)
(* the lists of suite names of length at most n *)
SuiteLists(n) ==
    IF n = 0 THEN {<<>>}
    ELSE SuiteLists(n - 1) \cup
         {Append(l, x) : l \in {k \in SuiteLists(n - 1) : Len(k) = n - 1}, x \in RatSuiteNames}

(* peers holds the two lists, <<peer_rat_suites, own_rat_suites>>, chan what the    *)
(* two functions return for them                                                    *)
RatInit == /\ fsm = create
           /\ \E peer_rat_suites \in SuiteLists(MaxSuites),
                 own_rat_suites \in SuiteLists(MaxSuites) :
                   peers = <<peer_rat_suites, own_rat_suites>>
           /\ chan = <<>>
           /\ accepted = <<>>
           /\ delivered = <<>>

test_rat_algorithm_calculation ==
    /\ chan = <<>>
    /\ chan' = <<calculate_rat_prover_mechanism(peers[1], peers[2]),
                 calculate_rat_verifier_mechanism(peers[1], peers[2])>>
    /\ UNCHANGED <<fsm, peers, accepted, delivered>>

RatNext == test_rat_algorithm_calculation

RatSpec == RatInit /\ [][RatNext]_vars

(* --------------- one RAT interface and its listener threads ------------ *)

(* The interface is rat_prover of fsm; what is said holds for rat_verifier alike.   *)
(* peers[r] is the listener thread of run r: its is_cancelled flag, where the       *)
(* thread is ("recv": in rx_from_driver.recv(); "lock": holding msg and waiting for *)
(* the FSM lock; "stop": inside DriverListener::stop called by its own handler;     *)
(* "done": returned) and the message it holds.  chan[r] is the channel of run r:    *)
(* q what is waiting in rx_from_driver, sent how many messages the worker emitted.  *)
(* The listener of the content is the one created last, peers[Len(peers)].          *)
(* res of fsm is here what the interface method called last returned.               *)
(* accepted records each stop_driver that has returned: the run it stopped and      *)
(* where that run's listener was; delivered counts the events the listeners gave    *)
(* to process_event and keeps the last of them, as <<run, message>>.                *)
DriverListener == [is_cancelled |-> FALSE, at |-> "recv", msg |-> "none"]

(* a slip: stop leaves the flag as it is *)
stop_without_cancelling(l) == l

stop(l) == [l EXCEPT !.is_cancelled = TRUE]

(* the message stop_driver sends to the listener to unblock its receive *)
Unblock == "RawData"

(* what the call of an interface method that returned res does to the listeners: *)
(* a content that was there has been taken and its listener stopped and woken;   *)
(* a run_driver that returned Ok has made a channel and a listener               *)
Listeners(res) ==
    LET cur == Len(peers)
        had == fsm.rat_prover.content
        stopped == IF had THEN [peers EXCEPT ![cur] = stop(@)] ELSE peers
        woken == IF had THEN [chan EXCEPT ![cur].q = Append(@, Unblock)] ELSE chan
        ran == res.i.content
    IN /\ fsm' = [fsm EXCEPT !.rat_prover = res.i, !.res = res.r]
       /\ peers' = IF ran THEN Append(stopped, DriverListener) ELSE stopped
       /\ chan' = IF ran THEN Append(woken, [q |-> <<>>, sent |-> 0]) ELSE woken
       /\ accepted' = IF had THEN accepted \cup {[run |-> cur, at |-> peers[cur].at]}
                      ELSE accepted
       /\ UNCHANGED delivered

ListenerInit == /\ fsm = create
                /\ peers = <<>>
                /\ chan = <<>>
                /\ accepted = {}
                /\ delivered = [n |-> 0, last |-> <<>>]

(* the event an unstopped listener gives to process_event *)
Heard(r) == [n |-> delivered.n + 1, last |-> <<r, peers[r].msg>>]

(* the FSM thread, under the FSM lock, in action_recv_hello *)
DriverStarts ==
    /\ ~fsm.blocked
    /\ Len(peers) < MaxRuns
    /\ \E rat_mechanism \in {"A", "B"} :
          Listeners(start_driver(fsm.rat_prover, rat_mechanism, prover_registry))

(* the FSM thread in action_recv_re_rat or action_recv_dat_exp *)
DriverRestarts ==
    /\ ~fsm.blocked
    /\ Len(peers) < MaxRuns
    /\ Listeners(restart_driver(fsm.rat_prover))

(* the FSM thread in cleanup, called by a thread that is not this listener *)
DriverStops ==
    /\ ~fsm.blocked
    /\ Listeners([i |-> stop_driver(fsm.rat_prover), r |-> "Ok"])

RECURSIVE Sent(_)
(* the messages the workers of the channels c have emitted *)
Sent(c) == IF c = <<>> THEN 0 ELSE Head(c).sent + Sent(Tail(c))

(* the FSM thread in action_delegate_rat_prover / action_delegate_rat_verifier *)
DriverWrites ==
    /\ ~fsm.blocked
    /\ fsm' = [fsm EXCEPT !.res = write_to_driver(fsm.rat_prover)]
    /\ UNCHANGED <<peers, chan, accepted, delivered>>

(* the worker of run r is not ended by stop_driver: it can send as long as the *)
(* listener of its run has not dropped the receiver                            *)
WorkerSends(r) ==
    /\ peers[r].at /= "done"
    /\ Sent(chan) < MaxSent
    /\ \E m \in RatMessage :
          chan' = [chan EXCEPT ![r].q = Append(@, m), ![r].sent = @ + 1]
    /\ UNCHANGED <<fsm, peers, accepted, delivered>>

(* rx_from_driver.recv() returns Ok(msg) *)
ListenerReceives(r) ==
    /\ peers[r].at = "recv"
    /\ chan[r].q /= <<>>
    /\ peers' = [peers EXCEPT ![r].at = "lock", ![r].msg = Head(chan[r].q)]
    /\ chan' = [chan EXCEPT ![r].q = Tail(@)]
    /\ UNCHANGED <<fsm, accepted, delivered>>

(* The listener has the FSM lock and reads its flag: cancelled, it returns;        *)
(* otherwise it calls process_event.  A Failed message, or a RawData message that  *)
(* cannot be written to the peer, takes the handler to cleanup, whose stop_driver  *)
(* takes the content and, the content's listener being this thread, locks          *)
(* is_cancelled a second time.                                                     *)
ListenerLocks(r) ==
    /\ ~fsm.blocked
    /\ peers[r].at = "lock"
    /\ IF peers[r].is_cancelled
       THEN /\ peers' = [peers EXCEPT ![r].at = "done"]
            /\ UNCHANGED <<fsm, chan, accepted, delivered>>
       ELSE /\ delivered' = Heard(r)
            /\ \E cleans \in BOOLEAN :
                  /\ cleans => peers[r].msg /= "OK"
                  /\ IF cleans /\ fsm.rat_prover.content
                     THEN IF r = Len(peers)
                          THEN /\ fsm' = [fsm EXCEPT !.rat_prover.content = FALSE,
                                                     !.blocked = TRUE,
                                                     !.res = "Relock"]
                               /\ peers' = [peers EXCEPT ![r].at = "stop"]
                               /\ UNCHANGED <<chan, accepted>>
                          ELSE /\ fsm' = [fsm EXCEPT !.rat_prover = stop_driver(@)]
                               /\ peers' = [peers EXCEPT ![r].at = "recv",
                                                         ![Len(peers)] = stop(@)]
                               /\ chan' = [chan EXCEPT ![Len(peers)].q = Append(@, Unblock)]
                               /\ accepted' = accepted \cup
                                     {[run |-> Len(peers), at |-> peers[Len(peers)].at]}
                     ELSE /\ peers' = [peers EXCEPT ![r].at = "recv"]
                          /\ UNCHANGED <<fsm, chan, accepted>>

ListenerNext == \/ DriverStarts
                \/ DriverRestarts
                \/ DriverStops
                \/ DriverWrites
                \/ \E r \in 1..Len(peers) : WorkerSends(r)
                \/ \E r \in 1..Len(peers) : ListenerReceives(r)
                \/ \E r \in 1..Len(peers) : ListenerLocks(r)

ListenerSpec == ListenerInit /\ [][ListenerNext]_vars

(* ------------------------------ properties ----------------------------- *)

(* the fields of the FSM and its collaborators, without the record of the last call *)
CoreFields == {"current_state", "ack_flag", "expected_alternating_bit",
               "next_send_alternating_bit", "rat_prover", "rat_verifier", "sc_unlocked",
               "sc_stopped", "handshake_result_available", "handshake_result",
               "hs_writes", "connection", "dat_duration"} \cup TimerNames

SameCore(f, g) == \A k \in CoreFields : f[k] = g[k]

(* what cleanup leaves behind *)
CleanedUp(f) == /\ \A t \in TimerNames : ~f[t]
                /\ ~f.rat_prover.content
                /\ ~f.rat_verifier.content
                /\ f.sc_stopped

(* C1: in Closed(Locked) process_event of every event returns FsmLocked, keeps the  *)
(* state Closed(Locked), sends nothing, starts no timer and leaves ack_flag, both   *)
(* alternating bits and the handshake result as they were.                          *)
C1_LockedIsAbsorbing ==
    fsm.current_state = ClosedLocked =>
        \A e \in FsmEvent, w \in BOOLEAN :
            LET g == process_event(fsm, e, w)
            IN /\ g.res = "FsmLocked"
               /\ g.current_state = ClosedLocked
               /\ g.out = <<>>
               /\ g.deliv = <<>>
               /\ ~g.on_close
               /\ SameCore(fsm, g)

C1_Witness == /\ fsm.current_state = ClosedLocked
              /\ fsm.res = "FsmLocked"

(* C2: a user Stop processed in any non-Closed state writes Close(USER_SHUTDOWN)    *)
(* (which goes out when the channel write succeeds), runs cleanup, moves the FSM to *)
(* Closed(Locked), returns success and does not invoke on_close.                    *)
C2_StopLocksWithoutNotification ==
    (~fsm.blocked /\ fsm.current_state \in NonClosed) =>
        \A w \in BOOLEAN :
            LET g == process_event(fsm, Stop, w)
            IN /\ g.current_state = ClosedLocked
               /\ g.res = "Ok"
               /\ g.out = (IF w THEN <<IdscpClose("USER_SHUTDOWN")>> ELSE <<>>)
               /\ CleanedUp(g)
               /\ ~g.on_close
               /\ ~g.blocked

C2_Witness == /\ fsm.current_state = ClosedLocked
              /\ fsm.out = <<IdscpClose("USER_SHUTDOWN")>>
              /\ fsm.res = "Ok"
              /\ IsActive(fsm.ack_flag)
              /\ fsm.connection = "some"
              /\ ~fsm.on_close

CloseEvents == {FromSecureChannel(ScError)}
               \cup {FromSecureChannel(IdscpClose(c)) : c \in CloseCauses}

(* C3: a secure-channel Error or a peer Close processed in any non-Closed state     *)
(* runs cleanup, calls notify_connection_about_close and moves the FSM to           *)
(* Closed(Locked).                                                                  *)
C3_ErrorOrCloseLocks ==
    (~fsm.blocked /\ fsm.current_state \in NonClosed) =>
        \A e \in CloseEvents, w \in BOOLEAN :
            LET g == process_event(fsm, e, w)
            IN /\ g.current_state = ClosedLocked
               /\ CleanedUp(g)
               /\ ~g.blocked

(* C4: the handshake result is written exactly once: by the first processed event   *)
(* that leaves the FSM in Established (Successful) or Closed(Locked) (Failed), and  *)
(* by no event after that.                                                          *)
C4_HandshakeResultWrittenOnce ==
    /\ fsm.hs_writes = (IF fsm.handshake_result_available THEN 1 ELSE 0)
    /\ fsm.handshake_result_available <=> fsm.handshake_result /= "NotAvailable"
    /\ (~fsm.blocked /\ fsm.current_state \in {Established, WaitForAck, ClosedLocked})
           => fsm.handshake_result_available
    /\ ~fsm.blocked =>
          \A e \in FsmEvent, w \in BOOLEAN :
              LET g == process_event(fsm, e, w)
              IN IF fsm.handshake_result_available
                 THEN /\ g.handshake_result = fsm.handshake_result
                      /\ g.hs_writes = fsm.hs_writes
                 ELSE /\ g.current_state = Established
                            => g.handshake_result = "Successful" /\ g.hs_writes = 1
                      /\ g.current_state = ClosedLocked
                            => g.handshake_result = "Failed" /\ g.hs_writes = 1
                      /\ g.current_state \notin {Established, ClosedLocked}
                            => g.handshake_result = "NotAvailable" /\ g.hs_writes = 0

C4_Witness == /\ fsm.current_state = ClosedLocked
              /\ fsm.handshake_result = "Successful"
              /\ fsm.hs_writes = 1

(* C5: in Established and WaitForAck the verifier run started last ended with       *)
(* VerifierOK, the prover run started last ended with ProverOK, and no DatTimeout   *)
(* was processed since the last successful verify_token of a peer DAT.              *)
C5_ConnectedMeansAttested ==
    (~fsm.blocked /\ fsm.current_state \in {Established, WaitForAck}) =>
        /\ fsm.rat_verifier.run = "ok"
        /\ fsm.rat_prover.run = "ok"
        /\ fsm.dat_fresh

C5_Witness == /\ fsm.current_state = WaitForAck
              /\ fsm.rat_verifier.run = "ok"
              /\ fsm.rat_prover.run = "ok"
              /\ fsm.dat_fresh
              /\ fsm.res = "Ok"
              /\ fsm.out = <<>>

(* C7 as stated: ack_flag is Active exactly in WaitForAck. *)
C7_ActiveIffWaitForAck ==
    ~fsm.blocked => (IsActive(fsm.ack_flag) <=> fsm.current_state = WaitForAck)

(* C7 amended: ack_flag is Active in WaitForAck and Inactive in Closed(Unlocked),   *)
(* WaitForHello and Established; in the re-attestation states, the DAT-refresh      *)
(* states and Closed(Locked) a pending payload keeps it Active.                     *)
C7_ActiveInWaitForAckInactiveWhenIdle ==
    /\ fsm.current_state = WaitForAck => IsActive(fsm.ack_flag)
    /\ fsm.current_state \in {ClosedUnlocked, WaitForHello, Established}
          => fsm.ack_flag = Inactive

C7_Witness == /\ fsm.current_state = WaitForAck
              /\ IsActive(fsm.ack_flag)
              /\ fsm.rat_timer
              /\ fsm.out = <<>>

(* C8 as stated: Active(payload) implies that ack_timer is scheduled and that       *)
(* next_send still has the bit sent with the payload.                               *)
C8_ActiveMeansTimerScheduled ==
    (~fsm.blocked /\ IsActive(fsm.ack_flag)) =>
        /\ fsm.ack_timer
        /\ fsm.next_send_alternating_bit = fsm.sent_bit

(* C8 amended: Active(payload) implies that next_send still has the bit sent with   *)
(* the payload, and that ack_timer is scheduled when current_state is WaitForAck;   *)
(* outside WaitForAck the timer is cancelled while the flag stays Active.           *)
C8_ActiveKeepsBitAndTimerInWaitForAck ==
    (~fsm.blocked /\ IsActive(fsm.ack_flag)) =>
        /\ fsm.next_send_alternating_bit = fsm.sent_bit
        /\ fsm.ack_timer <=> fsm.current_state = WaitForAck

C8_Witness == /\ fsm.current_state = WaitForAck
              /\ fsm.ack_flag = Active(1)
              /\ fsm.ack_timer
              /\ fsm.next_send_alternating_bit = 1
              /\ fsm.sent_bit = 1

IsValidAck(f, e) == /\ IsSc(e, "Ack")
                    /\ e.msg.bit = f.next_send_alternating_bit
                    /\ IsActive(f.ack_flag)

IsExpectedData(f, e) == /\ IsSc(e, "Data")
                        /\ e.msg.bit = f.expected_alternating_bit
                        /\ f.current_state \in {Established, WaitForAck}

(* C9 as stated: next_send changes exactly when an Ack with the bit next_send is    *)
(* processed while ack_flag is Active, expected exactly when a peer Data with the   *)
(* expected bit is processed in Established or WaitForAck.                          *)
C9_BitsFlipIff ==
    /\ fsm.current_state = ClosedUnlocked
          => fsm.next_send_alternating_bit = 0 /\ fsm.expected_alternating_bit = 0
    /\ ~fsm.blocked =>
          \A e \in FsmEvent, w \in BOOLEAN :
              LET g == process_event(fsm, e, w)
              IN /\ g.next_send_alternating_bit /= fsm.next_send_alternating_bit
                       <=> IsValidAck(fsm, e)
                 /\ g.expected_alternating_bit /= fsm.expected_alternating_bit
                       <=> IsExpectedData(fsm, e)

(* C9 amended: as stated, but the Ack flips next_send only while the FSM is not     *)
(* Closed(Locked), where a payload may still be pending.                            *)
C9_BitsFlipIffNotLocked ==
    /\ fsm.current_state = ClosedUnlocked
          => fsm.next_send_alternating_bit = 0 /\ fsm.expected_alternating_bit = 0
    /\ ~fsm.blocked =>
          \A e \in FsmEvent, w \in BOOLEAN :
              LET g == process_event(fsm, e, w)
              IN /\ g.next_send_alternating_bit /= fsm.next_send_alternating_bit
                       <=> (IsValidAck(fsm, e) /\ fsm.current_state /= ClosedLocked)
                 /\ g.expected_alternating_bit /= fsm.expected_alternating_bit
                       <=> IsExpectedData(fsm, e)

C9_Witness == /\ fsm.next_send_alternating_bit = 1
              /\ fsm.expected_alternating_bit = 1
              /\ fsm.current_state = Established

(* C10: from Established with next_send = b, a user Data(d) whose write succeeds    *)
(* sends Data(d, b), sets ack_flag = Active(d), starts ack_timer and moves to       *)
(* WaitForAck with next_send unchanged; a following peer Ack(b) sets ack_flag =     *)
(* Inactive, cancels ack_timer, flips next_send and returns to Established.         *)
C10_SendAckRoundTrip ==
    (~fsm.blocked /\ fsm.current_state = Established) =>
        /\ fsm.ack_flag = Inactive
        /\ \A d \in Payloads :
              LET b == fsm.next_send_alternating_bit
                  g == process_event(fsm, FromUpperData(d), TRUE)
              IN /\ g.out = <<IdscpData(d, b)>>
                 /\ g.res = "Ok"
                 /\ g.ack_flag = Active(d)
                 /\ g.ack_timer
                 /\ g.current_state = WaitForAck
                 /\ g.next_send_alternating_bit = b
                 /\ \A w \in BOOLEAN :
                       LET h == process_event(g, FromSecureChannel(IdscpAck(b)), w)
                       IN /\ h.ack_flag = Inactive
                          /\ ~h.ack_timer
                          /\ h.next_send_alternating_bit = alternate(b)
                          /\ h.current_state = Established
                          /\ h.res = "Ok"
                          /\ h.out = <<>>

C10_Witness == /\ fsm.current_state = Established
               /\ fsm.ack_flag = Inactive
               /\ fsm.next_send_alternating_bit = 1
               /\ ~fsm.ack_timer
               /\ fsm.res = "Ok"
               /\ fsm.out = <<>>
               /\ fsm.deliv = <<>>

IsPrefix(s, t) == /\ Len(s) <= Len(t)
                  /\ \A i \in 1..Len(s) : s[i] = t[i]

(* C6: between two endpoints joined by FIFO channels, the payloads given to         *)
(* on_message at one endpoint are, in order, a prefix of the payloads whose send    *)
(* the other endpoint accepted: none is duplicated, none reordered and none         *)
(* skipped, whatever the interleaving of sends, timeouts and re-attestations.       *)
C6_DeliveredIsPrefixOfAccepted ==
    \A p \in Endpoints : IsPrefix(delivered[other(p)], accepted[p])

C6_Witness == /\ delivered[2] = accepted[1]
              /\ Len(accepted[1]) = MaxSend
              /\ peers[1].current_state = Established

Ack(b) == FromSecureChannel(IdscpAck(b))

AckTimeout == Timeout("AckTimeout")

(* C11: an Ack whose bit differs from next_send, processed in WaitForAck, is        *)
(* ignored: the state stays WaitForAck, next_send and the Active flag with its      *)
(* payload are unchanged, ack_timer stays armed and nothing is sent.                *)
C11_WrongAckIgnored ==
    (~fsm.blocked /\ fsm.current_state = WaitForAck) =>
        \A w \in BOOLEAN :
            LET g == process_event(fsm, Ack(alternate(fsm.next_send_alternating_bit)), w)
            IN /\ g.current_state = WaitForAck
               /\ g.next_send_alternating_bit = fsm.next_send_alternating_bit
               /\ IsActive(g.ack_flag)
               /\ g.ack_flag = fsm.ack_flag
               /\ g.ack_timer
               /\ g.out = <<>>
               /\ SameCore(fsm, g)

C11_Witness ==
    /\ fsm.current_state = WaitForAck
    /\ fsm.ack_flag = Active(2)
    /\ fsm.next_send_alternating_bit = 1
    /\ fsm.ack_timer
    /\ process_event(fsm, Ack(0), TRUE).ack_flag = Active(2)

PeerData(d, b) == FromSecureChannel(IdscpData(d, b))

(* C12: a peer Data(payload, bit) processed in Established or WaitForAck with the   *)
(* expected bit sends Ack(bit), flips expected and gives the payload to on_message  *)
(* once; with the other bit nothing is sent or delivered and expected is unchanged; *)
(* current_state is unchanged in both cases.                                        *)
C12_DataAckedAndDelivered ==
    (~fsm.blocked /\ fsm.current_state \in {Established, WaitForAck}) =>
        \A d \in Payloads, b \in Bits :
            LET g == process_event(fsm, PeerData(d, b), TRUE)
            IN /\ g.current_state = fsm.current_state
               /\ ~g.blocked
               /\ IF b = fsm.expected_alternating_bit
                  THEN /\ g.out = <<IdscpAck(b)>>
                       /\ g.expected_alternating_bit = alternate(b)
                       /\ g.deliv = <<d>>
                  ELSE /\ g.out = <<>>
                       /\ g.expected_alternating_bit = fsm.expected_alternating_bit
                       /\ g.deliv = <<>>

(* C13: an AckTimeout in WaitForAck sends the buffered payload again with the       *)
(* unchanged next_send bit, starts ack_timer again and stays in WaitForAck with     *)
(* ack_flag and next_send unchanged; the AckTimeout after it does the same.         *)
C13_AckTimeoutRetransmits ==
    (~fsm.blocked /\ fsm.current_state = WaitForAck) =>
        LET resent == <<IdscpData(fsm.ack_flag[1], fsm.next_send_alternating_bit)>>
            g == process_event(cancel(fsm, "ack_timer"), AckTimeout, TRUE)
            h == process_event(cancel(g, "ack_timer"), AckTimeout, TRUE)
        IN /\ IsActive(fsm.ack_flag)
           /\ g.out = resent
           /\ g.res = "Ok"
           /\ g.ack_timer
           /\ SameCore(fsm, g)
           /\ h.out = resent
           /\ h.ack_timer
           /\ SameCore(fsm, h)

C13_Witness ==
    /\ fsm.current_state = WaitForAck
    /\ fsm.ack_flag = Active(2)
    /\ fsm.next_send_alternating_bit = 1
    /\ fsm.ack_timer
    /\ process_event(cancel(fsm, "ack_timer"), AckTimeout, TRUE).out = <<IdscpData(2, 1)>>

(* C14: an AckTimeout in WaitForAck while ack_flag is Inactive returns              *)
(* IdscpDataNotCached and changes nothing: the state stays WaitForAck, nothing is   *)
(* sent, no cleanup runs and ack_timer is not started.                              *)
C14_AckTimeoutWithoutPayload ==
    (fsm.current_state = WaitForAck /\ fsm.ack_flag = Inactive) =>
        \A w \in BOOLEAN :
            LET g == process_event(fsm, AckTimeout, w)
            IN /\ g.res = "IdscpDataNotCached"
               /\ g.current_state = WaitForAck
               /\ g.out = <<>>
               /\ ~g.on_close
               /\ g.ack_timer = fsm.ack_timer
               /\ SameCore(fsm, g)

C14_Witness ==
    /\ fsm.current_state = WaitForAck
    /\ fsm.ack_flag = Inactive
    /\ fsm.res = "IdscpDataNotCached"
    /\ fsm.rat_prover.content
    /\ fsm.rat_verifier.content

NotStartedStates == {WaitForHello, WaitForRat, WaitForRatProver, WaitForRatVerifier,
                     WaitForDatAndRat, WaitForDatAndRatVerifier}

IsDataMessage(m) == m.type = "Data"

(* C15: a user Data event sends a Data message only in Established; in WaitForAck   *)
(* it returns WouldBlock and in the six states between Closed and Established it    *)
(* returns NotConnected, and a rejected Data leaves current_state, ack_flag, both   *)
(* alternating bits and everything else unchanged and sends nothing.                *)
C15_UserDataOnlyInEstablished ==
    ~fsm.blocked =>
        \A d \in Payloads, w \in BOOLEAN :
            LET g == process_event(fsm, FromUpperData(d), w)
            IN /\ (\E i \in 1..Len(g.out) : IsDataMessage(g.out[i]))
                      => (fsm.current_state = Established /\ w)
               /\ (fsm.current_state = Established /\ w) =>
                      /\ g.out = <<IdscpData(d, fsm.next_send_alternating_bit)>>
                      /\ g.res = "Ok"
               /\ fsm.current_state = WaitForAck => g.res = "WouldBlock"
               /\ fsm.current_state \in NotStartedStates => g.res = "NotConnected"
               /\ fsm.current_state \in NotStartedStates \cup {WaitForAck} =>
                      /\ SameCore(fsm, g)
                      /\ g.out = <<>>
                      /\ g.deliv = <<>>
                      /\ ~g.on_close

C15_Witness ==
    /\ fsm.current_state = WaitForAck
    /\ fsm.ack_flag = Active(1)
    /\ fsm.res = "WouldBlock"
    /\ fsm.out = <<>>
    /\ fsm.ack_timer

(* C16: in Closed(Unlocked) the user commands Stop, Data and RepeatRat return       *)
(* FsmNotStarted and every event that is not a user command returns                *)
(* UnknownTransition; each leaves the FSM as it was, in Closed(Unlocked), so that a *)
(* StartHandshake after it sends Hello, starts handshake_timer and moves to         *)
(* WaitForHello.                                                                    *)
C16_ClosedUnlockedRejectsWithoutLocking ==
    fsm.current_state = ClosedUnlocked =>
        \A e \in FsmEvent \ {FromUpper("StartHandshake")}, w \in BOOLEAN :
            LET g == process_event(fsm, e, w)
                h == process_event(g, FromUpper("StartHandshake"), TRUE)
            IN /\ g.res = IF e.src = "Upper" THEN "FsmNotStarted" ELSE "UnknownTransition"
               /\ g.current_state = ClosedUnlocked
               /\ SameCore(fsm, g)
               /\ g.out = <<>>
               /\ h.current_state = WaitForHello
               /\ h.handshake_timer
               /\ Len(h.out) = 1
               /\ h.out[1].type = "Hello"
               /\ h.res = "Ok"

C16_Witness ==
    /\ fsm.current_state = ClosedUnlocked
    /\ fsm.res = "FsmNotStarted"
    /\ ~fsm.handshake_result_available
    /\ process_event(fsm, FromUpper("StartHandshake"), TRUE).current_state = WaitForHello

HandshakeTimerStates == {WaitForHello, WaitForDatAndRat, WaitForDatAndRatVerifier}

(* C17: handshake_timer is armed in every reachable state whose current_state is    *)
(* WaitForHello, WaitForDatAndRat or WaitForDatAndRatVerifier; every transition     *)
(* from one of these to a state outside them cancels it; it is armed in no          *)
(* reachable state outside them.                                                    *)
C17_HandshakeTimerArmedIffWaitingForDat ==
    ~fsm.blocked =>
        /\ fsm.handshake_timer <=> fsm.current_state \in HandshakeTimerStates
        /\ \A e \in FsmEvent, w \in BOOLEAN :
               LET g == process_event(fsm, e, w)
               IN (/\ fsm.current_state \in HandshakeTimerStates
                   /\ ~g.blocked
                   /\ g.current_state \notin HandshakeTimerStates) => ~g.handshake_timer

C17_Witness ==
    /\ fsm.current_state = WaitForDatAndRatVerifier
    /\ fsm.handshake_timer
    /\ IsActive(fsm.ack_flag)
    /\ \E e \in ScEvents :
           LET g == process_event(fsm, e, TRUE)
           IN e.msg.type = "Dat" /\ g.current_state = WaitForRatVerifier /\ ~g.handshake_timer

(* a driver is active from its start or restart until it is stopped or its worker   *)
(* has answered OK or Failed                                                        *)
DriverActive(i) == i.content /\ i.run = "running"

(* C18: in every reachable state with current_state WaitForRat or WaitForRatProver  *)
(* prover_timer is armed exactly when the prover driver is active, and in every     *)
(* reachable state with current_state WaitForRat or WaitForRatVerifier              *)
(* verifier_timer is armed exactly when the verifier driver is active.              *)
C18_RatTimerArmedIffDriverActive ==
    ~fsm.blocked =>
        /\ fsm.current_state \in {WaitForRat, WaitForRatProver} =>
               (fsm.prover_timer <=> DriverActive(fsm.rat_prover))
        /\ fsm.current_state \in {WaitForRat, WaitForRatVerifier} =>
               (fsm.verifier_timer <=> DriverActive(fsm.rat_verifier))

C18_Witness ==
    /\ fsm.current_state = WaitForRat
    /\ fsm.handshake_result_available
    /\ fsm.prover_timer
    /\ DriverActive(fsm.rat_prover)
    /\ fsm.verifier_timer
    /\ DriverActive(fsm.rat_verifier)

(* C19: in every reachable state with current_state Closed(Locked) cleanup has run: *)
(* none of the six timers is armed, neither RAT interface has driver content and    *)
(* the secure-channel reader is stopped, so no timer can expire and no listener     *)
(* can deliver a RAT message once the FSM has locked.                               *)
C19_LockedIsCleanedUp ==
    fsm.current_state = ClosedLocked =>
        /\ \A t \in TimerNames : ~fsm[t]
        /\ ~fsm.rat_prover.content
        /\ ~fsm.rat_verifier.content
        /\ fsm.sc_stopped
        /\ \A t \in TimerNames : ~ENABLED TimerExpires(t)
        /\ ~ENABLED ProverListener
        /\ ~ENABLED VerifierListener

C19_Witness ==
    /\ fsm.current_state = ClosedLocked
    /\ fsm.handshake_result = "Successful"
    /\ IsActive(fsm.ack_flag)
    /\ fsm.on_close
    /\ CleanedUp(fsm)

(* the transition e: f -> g closes the FSM, is not a user Stop and starts with the   *)
(* handshake result published                                                       *)
NotifiedClose(f, e, g) ==
    /\ f.current_state /= ClosedLocked
    /\ g.current_state = ClosedLocked
    /\ ~IsUpper(e, "Stop")
    /\ f.handshake_result_available

(* once locked no event invokes on_close, and a transition made before a handshake  *)
(* result is published neither invokes on_close nor waits for the connection        *)
OnCloseOnlyOnce(f, g) ==
    /\ f.current_state = ClosedLocked => (~g.on_close /\ g.current_state = ClosedLocked)
    /\ ~f.handshake_result_available => (~g.on_close /\ ~g.blocked)

(* C20: on_close is invoked at most once per FSM, and a transition invokes it       *)
(* exactly when it moves the FSM to Closed(Locked), is not caused by a user Stop    *)
(* and starts with the handshake result published; a close before any result is    *)
(* published neither invokes on_close nor waits for connection availability.        *)
C20_OnCloseIffNotifiedClose ==
    ~fsm.blocked =>
        \A e \in FsmEvent, w \in BOOLEAN :
            LET g == process_event(fsm, e, w)
            IN /\ g.on_close <=> NotifiedClose(fsm, e, g)
               /\ OnCloseOnlyOnce(fsm, g)

(* C20, amended: as above, with on_close invoked exactly when in addition the       *)
(* connection object bound by set_connection still exists.                         *)
C20_OnCloseIffNotifiedCloseOfLiveConnection ==
    ~fsm.blocked =>
        \A e \in FsmEvent, w \in BOOLEAN :
            LET g == process_event(fsm, e, w)
            IN /\ g.on_close <=> (NotifiedClose(fsm, e, g) /\ fsm.connection = "some")
               /\ OnCloseOnlyOnce(fsm, g)

C20_Witness ==
    /\ fsm.current_state = ClosedLocked
    /\ fsm.on_close
    /\ fsm.connection = "some"
    /\ fsm.handshake_result = "Successful"
    /\ fsm.res = "Ok"
    /\ fsm.out = <<>>

ClosedStates == {ClosedLocked, ClosedUnlocked}

(* the transition of e from f writes to the secure channel *)
WritesToChannel(f, e) == process_event(f, e, TRUE).out /= <<>>

(* C21: whenever a secure-channel write fails or a RAT driver start, restart or     *)
(* write fails while an event is processed in a non-Closed state, the FSM runs      *)
(* cleanup, notifies the connection about the close, ends in Closed(Locked) and     *)
(* returns the error.                                                               *)
C21_ActionFailureIsFatal ==
    (~fsm.blocked /\ fsm.current_state \notin ClosedStates) =>
        \A e \in FsmEvent :
            LET g == process_event(fsm, e, FALSE)
                h == process_event(fsm, e, TRUE)
            IN /\ WritesToChannel(fsm, e) =>
                      /\ g.current_state = ClosedLocked
                      /\ CleanedUp(g)
                      /\ g.res = "IoError"
               /\ h.res = "RatError" =>
                      /\ h.current_state = ClosedLocked
                      /\ CleanedUp(h)

(* the error a DAT that fails validation is refused with *)
DatError(dat) == IF dat = "missing" THEN "MissingDat" ELSE "InvalidDat"

IsValidDat(token) == token \notin {"missing", "unparsable"} /\ verify_token(token) /= 0

BadHellos == {h \in PeerHellos : ~IsValidDat(h.dat)}

BadDats == {IdscpDat(k) : k \in {t \in DatTokens : ~IsValidDat(t)}}

(* the Hello's suites yield a prover and a verifier mechanism *)
Negotiable(hello) ==
    /\ calculate_rat_prover_mechanism(hello.expected, supported_attestation_suite)
           /= NoRatMechanismMatch
    /\ calculate_rat_verifier_mechanism(hello.supported, expected_attestation_suite)
           /= NoRatMechanismMatch

(* Close(NO_VALID_DAT) was written, no dat_timer and no RAT driver was started *)
RefusedDat(g, w) ==
    /\ g.out = IF w THEN <<IdscpClose("NO_VALID_DAT")>> ELSE <<>>
    /\ CleanedUp(g)
    /\ ~g.dat_fresh
    /\ g.deliv = <<>>

C23_NoMechanismFailsSilently ==
    (~fsm.blocked /\ fsm.current_state = WaitForHello) =>
        \A hello \in PeerHellos, w \in BOOLEAN :
            ~Negotiable(hello) =>
                LET g == process_event(fsm, FromSecureChannel(hello), w)
                IN /\ g.res = "RatNegotiationError"
                   /\ g.out = <<>>
                   /\ g.current_state = ClosedLocked
                   /\ CleanedUp(g)
                   /\ g.handshake_result_available
                   /\ g.handshake_result = "Failed"
                   /\ ~g.on_close
                   /\ ~g.blocked

C23_Witness ==
    /\ fsm.current_state = ClosedLocked
    /\ fsm.res = "RatNegotiationError"
    /\ fsm.out = <<>>
    /\ fsm.handshake_result = "Failed"
    /\ CleanedUp(fsm)

Range(l) == {l[i] : i \in 1..Len(l)}

(* r is the first element of primary that occurs in secondary, or the error when    *)
(* there is none                                                                    *)
IsFirstCommon(r, primary, secondary) ==
    IF Range(primary) \cap Range(secondary) = {}
    THEN r = NoRatMechanismMatch
    ELSE \E i \in 1..Len(primary) :
             /\ r = primary[i]
             /\ r \in Range(secondary)
             /\ \A j \in 1..(i - 1) : primary[j] \notin Range(secondary)

(* C24: calculate_rat_prover_mechanism(peer_expected, own_supported) returns the    *)
(* first element of peer_expected that occurs in own_supported,                     *)
(* calculate_rat_verifier_mechanism(peer_supported, own_expected) the first element *)
(* of own_expected that occurs in peer_supported, and each returns                  *)
(* NoRatMechanismMatch exactly when a list is empty or the lists are disjoint.      *)
C24_NegotiationPicksFirstCommon ==
    chan /= <<>> =>
        /\ IsFirstCommon(chan[1], peers[1], peers[2])
        /\ IsFirstCommon(chan[2], peers[2], peers[1])
        /\ \A k \in 1..2 :
               chan[k] = NoRatMechanismMatch <=>
                   \/ peers[1] = <<>>
                   \/ peers[2] = <<>>
                   \/ Range(peers[1]) \cap Range(peers[2]) = {}

C24_Witness ==
    /\ peers = <<(<<"C", "B">>), (<<"B", "C">>)>>
    /\ chan = <<"C", "B">>

(* the Hellos of a peer with a valid DAT and suites for which both sides have       *)
(* drivers                                                                          *)
GoodHellos ==
    {h \in PeerHellos :
        /\ IsValidDat(h.dat)
        /\ calculate_rat_prover_mechanism(h.expected, supported_attestation_suite)
               \in prover_registry
        /\ calculate_rat_verifier_mechanism(h.supported, expected_attestation_suite)
               \in verifier_registry}

StillHandshaking(f, state) ==
    /\ f.current_state = state
    /\ f.res = "Ok"
    /\ ~f.handshake_result_available
    /\ f.handshake_result = "NotAvailable"

(* C25: from Closed(Unlocked) the events StartHandshake, a peer Hello with a valid  *)
(* DAT and matching mechanisms, then VerifierOK and ProverOK in either order, lead  *)
(* through WaitForHello and WaitForRat, then WaitForRatProver or                    *)
(* WaitForRatVerifier, to Established with ack_flag Inactive; the handshake result  *)
(* is unpublished until Established is entered and Successful from then on.         *)
C25_HappyHandshake ==
    fsm.current_state = ClosedUnlocked =>
        \A hello \in GoodHellos :
            LET started == process_event(fsm, FromUpper("StartHandshake"), TRUE)
                greeted == process_event(started, FromSecureChannel(hello), TRUE)
                verified == process_event(greeted, FromRatVerifier("OK"), TRUE)
                proved == process_event(greeted, FromRatProver("OK"), TRUE)
                connected == {process_event(verified, FromRatProver("OK"), TRUE),
                              process_event(proved, FromRatVerifier("OK"), TRUE)}
            IN /\ StillHandshaking(started, WaitForHello)
               /\ StillHandshaking(greeted, WaitForRat)
               /\ StillHandshaking(verified, WaitForRatProver)
               /\ StillHandshaking(proved, WaitForRatVerifier)
               /\ \A c \in connected :
                      /\ c.current_state = Established
                      /\ c.ack_flag = Inactive
                      /\ c.res = "Ok"
                      /\ c.handshake_result_available
                      /\ c.handshake_result = "Successful"
                      /\ c.hs_writes = 1

C25_Witness ==
    /\ fsm.current_state = Established
    /\ fsm.ack_flag = Inactive
    /\ fsm.handshake_result = "Successful"
    /\ fsm.hs_writes = 1
    /\ fsm.connection = "unset"
    /\ fsm.dat_fresh
    /\ fsm.rat_timer
    /\ fsm.res = "Ok"
    /\ fsm.out = <<>>

HandshakeTimeout == Timeout("HandshakeTimeout")

(* C26: a HandshakeTimeout processed in WaitForHello, WaitForRat, WaitForRatProver, *)
(* WaitForRatVerifier, WaitForDatAndRat or WaitForDatAndRatVerifier sends           *)
(* Close(TIMEOUT), runs cleanup and moves the FSM to Closed(Locked); processed in   *)
(* Established or WaitForAck it changes nothing and returns UnknownTransition.      *)
C26_HandshakeTimeoutCloses ==
    ~fsm.blocked =>
        LET g == process_event(fsm, HandshakeTimeout, TRUE)
        IN /\ fsm.current_state \in NotStartedStates =>
                  /\ g.out = <<IdscpClose("TIMEOUT")>>
                  /\ CleanedUp(g)
                  /\ g.current_state = ClosedLocked
           /\ fsm.current_state \in {Established, WaitForAck} =>
                  /\ g.res = "UnknownTransition"
                  /\ SameCore(fsm, g)
                  /\ g.out = <<>>

DatTimeout == Timeout("DatTimeout")

ValidDats == {IdscpDat(k) : k \in {t \in DatTokens : IsValidDat(t)}}

(* the FSM after dat_timer has expired in f and its DatTimeout was processed *)
AfterDatTimeout(f) == process_event(cancel(f, "dat_timer"), DatTimeout, TRUE)

(* C27: in Established, DatTimeout stops the verifier, cancels rat_timer, sends     *)
(* DatExpired, starts handshake_timer and moves to WaitForDatAndRatVerifier; a      *)
(* valid peer Dat then cancels handshake_timer, starts dat_timer with the duration  *)
(* verify_token returns, restarts the verifier, starts verifier_timer and moves to  *)
(* WaitForRatVerifier; a VerifierOK then returns to Established, or to WaitForAck   *)
(* when a payload is still pending.                                                 *)
C27_DatRefresh ==
    (~fsm.blocked /\ fsm.current_state \in {Established, WaitForAck}) =>
        LET expired == AfterDatTimeout(fsm)
        IN /\ expired.current_state = WaitForDatAndRatVerifier
           /\ expired.res = "Ok"
           /\ expired.out = <<IdscpDatExpired>>
           /\ ~expired.rat_verifier.content
           /\ ~expired.rat_timer
           /\ ~expired.dat_timer
           /\ expired.handshake_timer
           /\ expired.ack_flag = fsm.ack_flag
           /\ \A dat \in ValidDats :
                  LET renewed == process_event(expired, FromSecureChannel(dat), TRUE)
                      verified == process_event(renewed, FromRatVerifier("OK"), TRUE)
                  IN /\ renewed.current_state = WaitForRatVerifier
                     /\ renewed.res = "Ok"
                     /\ ~renewed.handshake_timer
                     /\ renewed.dat_timer
                     /\ renewed.dat_duration = verify_token(dat.token)
                     /\ DriverActive(renewed.rat_verifier)
                     /\ renewed.verifier_timer
                     /\ verified.res = "Ok"
                     /\ ~verified.verifier_timer
                     /\ verified.rat_timer
                     /\ verified.dat_timer
                     /\ verified.ack_flag = fsm.ack_flag
                     /\ verified.current_state =
                            IF IsActive(fsm.ack_flag) THEN WaitForAck ELSE Established

C27_Witness ==
    /\ fsm.current_state = Established
    /\ fsm.dat_timer
    /\ fsm.dat_duration = 1
    /\ fsm.rat_timer
    /\ LET renewed == process_event(AfterDatTimeout(fsm),
                                    FromSecureChannel(IdscpDat("valid_long")), TRUE)
       IN /\ renewed.dat_duration = 2
          /\ process_event(renewed, FromRatVerifier("OK"), TRUE).current_state = Established

(* what kind of event e is: where it comes from and which command, message type,   *)
(* worker message or timeout it carries                                             *)
EventKind(e) ==
    CASE e.src = "Upper" -> <<"Upper", e.cmd>>
      [] e.src = "Sc" -> <<"Sc", e.msg.type>>
      [] e.src = "Timer" -> <<"Timer", e.kind>>
      [] OTHER -> <<e.src, e.msg>>

(* the rows of the transition table, as the events listed for each state *)
TableRows(state) ==
    CASE state = ClosedUnlocked ->
            {<<"Upper", "StartHandshake">>, <<"Upper", "Stop">>, <<"Upper", "Data">>,
             <<"Upper", "RepeatRat">>}
      [] state = WaitForHello ->
            {<<"Sc", "Hello">>, <<"Timer", "HandshakeTimeout">>}
      [] state = WaitForRat ->
            {<<"RatProver", "OK">>, <<"RatVerifier", "OK">>,
             <<"RatProver", "RawData">>, <<"RatVerifier", "RawData">>,
             <<"Sc", "RatProver">>, <<"Sc", "RatVerifier">>,
             <<"RatProver", "Failed">>, <<"RatVerifier", "Failed">>,
             <<"Timer", "DatTimeout">>, <<"Sc", "DatExp">>}
      [] state = WaitForRatProver ->
            {<<"RatProver", "OK">>, <<"Sc", "ReRat">>, <<"Upper", "RepeatRat">>,
             <<"Timer", "RatTimeout">>, <<"Timer", "DatTimeout">>}
      [] state = WaitForRatVerifier ->
            {<<"RatVerifier", "OK">>, <<"Sc", "DatExp">>, <<"Sc", "ReRat">>,
             <<"Timer", "DatTimeout">>}
      [] state = WaitForDatAndRat ->
            {<<"Sc", "Dat">>, <<"RatProver", "OK">>, <<"Sc", "DatExp">>}
      [] state = WaitForDatAndRatVerifier ->
            {<<"Sc", "Dat">>, <<"Sc", "DatExp">>, <<"Sc", "ReRat">>}
      [] state = Established ->
            {<<"Upper", "Data">>, <<"Sc", "Data">>, <<"Upper", "RepeatRat">>,
             <<"Timer", "RatTimeout">>, <<"Timer", "DatTimeout">>, <<"Sc", "DatExp">>,
             <<"Sc", "ReRat">>}
      [] state = WaitForAck ->
            {<<"Sc", "Ack">>, <<"Timer", "AckTimeout">>, <<"Upper", "Data">>,
             <<"Sc", "Data">>, <<"Upper", "RepeatRat">>, <<"Timer", "RatTimeout">>,
             <<"Sc", "DatExp">>, <<"Timer", "DatTimeout">>}
      [] OTHER -> {}

(* the rows for any non-Closed state *)
CommonRows == {<<"Upper", "Stop">>, <<"Sc", "Error">>, <<"Sc", "Close">>}

(* the transition table lists the pair (state, event) *)
Listed(state, e) ==
    \/ state = ClosedLocked
    \/ EventKind(e) \in TableRows(state)
    \/ state /= ClosedUnlocked /\ EventKind(e) \in CommonRows

(* the pairs that the table does not list and process_event has an arm for *)
HandledUnlisted(state) ==
    CASE state = WaitForHello ->
            {<<"Upper", "Data">>, <<"Upper", "RepeatRat">>}
      [] state = WaitForRat ->
            {<<"Upper", "Data">>, <<"Upper", "RepeatRat">>, <<"Sc", "Ack">>,
             <<"Timer", "HandshakeTimeout">>}
      [] state = WaitForRatProver ->
            {<<"Upper", "Data">>, <<"Sc", "Ack">>, <<"Sc", "RatVerifier">>,
             <<"Sc", "DatExp">>, <<"RatProver", "Failed">>, <<"RatProver", "RawData">>,
             <<"Timer", "HandshakeTimeout">>}
      [] state = WaitForRatVerifier ->
            {<<"Upper", "Data">>, <<"Upper", "RepeatRat">>, <<"Sc", "Ack">>,
             <<"Sc", "RatProver">>, <<"RatVerifier", "Failed">>,
             <<"RatVerifier", "RawData">>, <<"Timer", "HandshakeTimeout">>}
      [] state = WaitForDatAndRat ->
            {<<"Upper", "Data">>, <<"Upper", "RepeatRat">>, <<"Sc", "Ack">>,
             <<"Sc", "RatVerifier">>, <<"Sc", "ReRat">>, <<"RatProver", "Failed">>,
             <<"RatProver", "RawData">>, <<"Timer", "HandshakeTimeout">>}
      [] state = WaitForDatAndRatVerifier ->
            {<<"Upper", "Data">>, <<"Upper", "RepeatRat">>, <<"Sc", "Ack">>,
             <<"Timer", "HandshakeTimeout">>}
      [] state = WaitForAck -> {<<"Sc", "ReRat">>}
      [] OTHER -> {}

(* the call of e in f returned UnknownTransition and changed nothing *)
Refused(f, g) ==
    /\ g.res = "UnknownTransition"
    /\ SameCore(f, g)
    /\ g.out = <<>>
    /\ g.deliv = <<>>
    /\ ~g.on_close

(* C28: for every (state, event) pair that the transition table does not list,     *)
(* process_event returns UnknownTransition and leaves current_state, ack_flag, both *)
(* alternating bits, all timers and both RAT drivers unchanged.                     *)
C28_UnlistedPairsAreRefused ==
    ~fsm.blocked =>
        \A e \in FsmEvent, w \in BOOLEAN :
            ~Listed(fsm.current_state, e) => Refused(fsm, process_event(fsm, e, w))

(* C28, amended: the same for every pair that the table does not list and           *)
(* process_event has no arm for; the unlisted pairs it has an arm for do not return *)
(* UnknownTransition.                                                               *)
C28_UnhandledPairsAreRefused ==
    ~fsm.blocked =>
        \A e \in FsmEvent, w \in BOOLEAN :
            ~Listed(fsm.current_state, e) =>
                LET g == process_event(fsm, e, w)
                IN IF EventKind(e) \in HandledUnlisted(fsm.current_state)
                   THEN g.res /= "UnknownTransition"
                   ELSE Refused(fsm, g)

C28_Witness ==
    /\ fsm.current_state = WaitForRat
    /\ fsm.res = "UnknownTransition"
    /\ fsm.prover_timer
    /\ fsm.verifier_timer
    /\ fsm.out = <<>>
    /\ Refused(fsm, process_event(fsm, FromSecureChannel(IdscpReRat), TRUE))

(* C29: no call of process_event is left waiting forever in                         *)
(* wait_for_connection_available while it holds the FSM lock: whenever a call       *)
(* waits there, the upper layer's set_connection, which releases it, can run.       *)
C29_WaitingCallIsReleased ==
    (fsm.blocked /\ fsm.res = "Blocked") => ENABLED SetConnection

(* the runs whose stop_driver has returned *)
StoppedRuns == {s.run : s \in accepted}

(* C30: once stop_driver has returned for a run, its listener hands nothing more to *)
(* process_event, whichever message it holds when it gets the FSM lock, one it was  *)
(* already holding when the driver was stopped included; a listener whose run has   *)
(* not been stopped hands the message it holds to process_event; and nothing else   *)
(* reaches process_event as a message of the driver.                                *)
C30_OnlyTheLiveRunIsHeard ==
    [][ /\ \A r \in 1..Len(peers) :
              (peers[r].at = "lock" /\ peers'[r].at /= "lock") =>
                  IF r \in StoppedRuns
                  THEN delivered' = delivered
                  ELSE delivered' = Heard(r)
        /\ delivered' /= delivered =>
              \E r \in (1..Len(peers)) \ StoppedRuns :
                  /\ peers[r].at = "lock"
                  /\ delivered' = Heard(r)
      ]_vars

(* a listener that held a message when its driver was stopped has returned, and a *)
(* message of a later run has been delivered                                      *)
C30_Witness ==
    \E s \in accepted :
        /\ s.at = "lock"
        /\ peers[s.run].at = "done"
        /\ delivered.n > 0
        /\ delivered.last[1] > s.run

(* the listeners of the interface that have not been cancelled *)
LiveListeners == {r \in 1..Len(peers) : ~peers[r].is_cancelled}

(* C31: whatever start_driver, restart_driver, write_to_driver and stop_driver calls *)
(* came before, and no call being stuck: there is no content before the first run;   *)
(* stop_driver leaves no content and changes nothing where there was none;           *)
(* start_driver and restart_driver leave a content exactly when they return Ok;      *)
(* restart_driver without a cached driver returns RatDriverNotCached;                *)
(* write_to_driver returns RatDriverInactive exactly when there is no content and    *)
(* changes nothing; and at most one listener is not cancelled, the one of the        *)
(* content, which exists exactly when there is a content.                            *)
C31_InterfaceLifecycle ==
    ~fsm.blocked =>
        LET i == fsm.rat_prover
        IN /\ peers = <<>> => ~i.content
           /\ ~stop_driver(i).content
           /\ ~i.content => stop_driver(i) = i
           /\ \A rat_mechanism \in {"A", "B"} :
                 LET s == start_driver(i, rat_mechanism, prover_registry)
                 IN s.i.content <=> s.r = "Ok"
           /\ restart_driver(i).i.content <=> restart_driver(i).r = "Ok"
           /\ i.cached_driver = "none" => restart_driver(i).r = "RatDriverNotCached"
           /\ write_to_driver(i) = "RatDriverInactive" <=> ~i.content
           /\ LiveListeners = IF i.content THEN {Len(peers)} ELSE {}

(* a second run is on after the first was stopped by the start of the second, and *)
(* a write to it would be taken                                                   *)
C31_Witness ==
    /\ Len(peers) = 2
    /\ fsm.rat_prover.content
    /\ peers[1].is_cancelled
    /\ ~peers[2].is_cancelled
    /\ \E s \in accepted : s.run = 1
    /\ write_to_driver(fsm.rat_prover) = "Ok"

(* The sender's payload awaits its Ack, the receiver has taken it (its expected bit *)
(* has moved past the bit of the payload) and no Ack with that bit is on its way    *)
(* to the sender: the Ack was lost.                                                 *)
AckLost ==
    /\ IsActive(peers[1].ack_flag)
    /\ peers[2].expected_alternating_bit /= peers[1].next_send_alternating_bit
    /\ \A k \in 1..Len(chan[1]) :
          chan[1][k] /= IdscpAck(peers[1].next_send_alternating_bit)

(* the payload that awaits its Ack, as the sender sends it again *)
Retransmission == IdscpData(peers[1].ack_flag[1], peers[1].next_send_alternating_bit)

(* C32: once the Ack of an accepted payload is lost, it stays lost: whatever step    *)
(* the two endpoints take, the sender's ack_flag stays Active with the same payload *)
(* and bit and no valid Ack is on its way; the receiver drops a retransmission      *)
(* without an Ack and without a delivery; and the sender, in WaitForAck, sends the  *)
(* payload again on AckTimeout.                                                     *)
C32_LostAckWedge ==
    [][ AckLost =>
          /\ AckLost'
          /\ peers'[1].ack_flag = peers[1].ack_flag
          /\ peers'[1].next_send_alternating_bit = peers[1].next_send_alternating_bit
          /\ ~peers[2].blocked =>
                \A w \in BOOLEAN :
                    LET g == process_event(peers[2], FromSecureChannel(Retransmission), w)
                    IN /\ g.out = <<>>
                       /\ g.deliv = <<>>
                       /\ g.expected_alternating_bit = peers[2].expected_alternating_bit
          /\ (~peers[1].blocked /\ peers[1].current_state = WaitForAck) =>
                process_event(cancel(peers[1], "ack_timer"), AckTimeout, TRUE).out
                    = <<Retransmission>>
      ]_vars

(* the Ack is lost, the payload was given to the upper layer of the receiver, the *)
(* sender waits in WaitForAck and a retransmission is on its way                  *)
C32_Witness ==
    /\ AckLost
    /\ peers[1].current_state = WaitForAck
    /\ peers[2].current_state = Established
    /\ delivered[2] = accepted[1]
    /\ chan[2] = <<Retransmission>>

PeerReRat == FromSecureChannel(IdscpReRat)

(* the states in which the FSM awaits its prover *)
ProverAwaited == {WaitForRat, WaitForRatProver, WaitForDatAndRat}

(* C33: a peer ReRat processed in any state after Hello and before Closed is taken: *)
(* the prover driver runs anew, prover_timer is started and the FSM is in a state   *)
(* in which the prover is awaited.                                                  *)
C33_PeerReRatRestartsProver ==
    (~fsm.blocked /\ fsm.current_state \in (NonClosed \ {WaitForHello})) =>
        \A w \in BOOLEAN :
            LET g == process_event(cancel(fsm, "prover_timer"), PeerReRat, w)
            IN /\ g.res = "Ok"
               /\ DriverActive(g.rat_prover)
               /\ g.prover_timer
               /\ g.current_state \in ProverAwaited

(* the events that take the FSM from WaitForAck into a re-attestation or a DAT refresh *)
LeaveWaitForAck == {FromUpper("RepeatRat"), Timeout("RatTimeout"), DatTimeout,
                    FromSecureChannel(IdscpDatExpired), PeerReRat}

(* the payload p of Active(p), as it is sent with the bit of f *)
Pending(f) == IdscpData(f.ack_flag[1], f.next_send_alternating_bit)

(* the attestation completes in f with e: WaitForAck is entered with ack_timer armed, *)
(* the payload and the bit are kept, and the next AckTimeout sends the payload again  *)
ResumesWaitForAck(f, e) ==
    \A w \in BOOLEAN :
        LET g == process_event(f, e, w)
            h == process_event(cancel(g, "ack_timer"), AckTimeout, TRUE)
        IN /\ g.res = "Ok"
           /\ g.current_state = WaitForAck
           /\ g.ack_timer
           /\ g.ack_flag = f.ack_flag
           /\ g.next_send_alternating_bit = f.next_send_alternating_bit
           /\ h.out = <<Pending(f)>>
           /\ h.current_state = WaitForAck

(* C34: with ack_flag = Active(p): RepeatRat, RatTimeout, DatTimeout, a peer          *)
(* DatExpired and a peer ReRat take the FSM out of WaitForAck with ack_timer          *)
(* cancelled and p and the bit kept; ProverOK in WaitForRatProver and VerifierOK in   *)
(* WaitForRatVerifier then start ack_timer and enter WaitForAck, not Established, and *)
(* the next AckTimeout sends p again with the same bit.                               *)
C34_PendingPayloadSurvives ==
    (~fsm.blocked /\ IsActive(fsm.ack_flag)) =>
        /\ fsm.current_state = WaitForAck =>
              \A e \in LeaveWaitForAck :
                  LET g == process_event(fsm, e, TRUE)
                  IN /\ g.res = "Ok"
                     /\ g.current_state \in
                           {WaitForRatProver, WaitForRatVerifier, WaitForDatAndRatVerifier}
                     /\ ~g.ack_timer
                     /\ g.ack_flag = fsm.ack_flag
                     /\ g.next_send_alternating_bit = fsm.next_send_alternating_bit
        /\ fsm.current_state = WaitForRatProver => ResumesWaitForAck(fsm, FromRatProver("OK"))
        /\ fsm.current_state = WaitForRatVerifier =>
              ResumesWaitForAck(fsm, FromRatVerifier("OK"))

(* the payload 2 sent with bit 1 has waited through a re-attestation that a peer ReRat *)
(* started: the prover is awaited, ack_timer is off, and ProverOK leads to WaitForAck  *)
C34_Witness ==
    /\ fsm.current_state = WaitForRatProver
    /\ fsm.ack_flag = Active(2)
    /\ fsm.next_send_alternating_bit = 1
    /\ ~fsm.ack_timer
    /\ ~fsm.blocked
    /\ process_event(fsm, FromRatProver("OK"), TRUE).current_state = WaitForAck

(* the comments on the variants of FsmState: what is active in each state *)
DocumentedTimers(state) ==
    CASE state = WaitForHello -> {"handshake_timer"}
      [] state = WaitForRat -> {"prover_timer", "verifier_timer"}
      [] state = WaitForRatProver -> {"prover_timer"}
      [] state = WaitForRatVerifier -> {"verifier_timer"}
      [] state = WaitForDatAndRat -> {"handshake_timer", "prover_timer"}
      [] state = WaitForDatAndRatVerifier -> {"handshake_timer"}
      [] state = WaitForAck -> {"ack_timer"}
      [] OTHER -> {}

(* those of handshake_timer, prover_timer, verifier_timer and ack_timer that are armed *)
ArmedTimers(f) ==
    {t \in {"handshake_timer", "prover_timer", "verifier_timer", "ack_timer"} : f[t]}

(* C35: in every reachable state, of handshake_timer, prover_timer, verifier_timer *)
(* and ack_timer only those the comment on the state names are armed.              *)
C35_OnlyDocumentedTimersArmed ==
    ~fsm.blocked => ArmedTimers(fsm) \subseteq DocumentedTimers(fsm.current_state)

(* C36: in every reachable state Established goes with ack_flag = Inactive, so a   *)
(* user Data taken in Established finds no payload awaiting its Ack: it is sent,   *)
(* becomes the one pending payload and the FSM waits in WaitForAck, where a        *)
(* further user Data is refused and leaves the pending payload as it is.           *)
C36_EstablishedHasNothingPending ==
    (~fsm.blocked /\ fsm.current_state = Established) =>
        /\ fsm.ack_flag = Inactive
        /\ \A d \in Payloads :
              LET g == process_event(fsm, FromUpperData(d), TRUE)
              IN /\ g.res = "Ok"
                 /\ g.ack_flag = Active(d)
                 /\ g.current_state = WaitForAck
                 /\ g.out = <<IdscpData(d, fsm.next_send_alternating_bit)>>
                 /\ \A d2 \in Payloads :
                       LET h == process_event(g, FromUpperData(d2), TRUE)
                       IN /\ h.res /= "Ok"
                          /\ h.ack_flag = Active(d)
                          /\ h.out = <<>>

(* Established after a payload has been sent and acknowledged and the next one can go *)
C36_Witness ==
    /\ fsm.current_state = Established
    /\ ~fsm.blocked
    /\ fsm.next_send_alternating_bit = 1
    /\ fsm.ack_flag = Inactive
    /\ process_event(fsm, FromUpperData(2), TRUE).ack_flag = Active(2)

(* the states in which the verifier's last run is complete and has not run out *)
VerifiedStates == {WaitForRatProver, WaitForAck, Established}

VerifierOK == FromRatVerifier("OK")

(* C37: in every reachable state rat_timer is armed exactly when current_state is   *)
(* WaitForRatProver, WaitForAck or Established; a VerifierOK that is taken starts   *)
(* it; action_re_rat, dat_timeout_handler and cleanup leave it cancelled.           *)
C37_RatTimerArmedIffVerified ==
    ~fsm.blocked =>
        /\ fsm.rat_timer <=> fsm.current_state \in VerifiedStates
        /\ fsm.current_state \in {WaitForRat, WaitForRatVerifier} =>
              process_event(fsm, VerifierOK, TRUE).rat_timer
        /\ \A w \in BOOLEAN :
              /\ ~action_re_rat(fsm, w).f.rat_timer
              /\ ~dat_timeout_handler(fsm, w).f.rat_timer
        /\ ~cleanup(fsm).rat_timer

(* the re-attestation period runs while the prover is awaited after a peer ReRat *)
C37_Witness ==
    /\ fsm.current_state = WaitForRatProver
    /\ fsm.rat_timer
    /\ fsm.handshake_result = "Successful"
    /\ ~fsm.blocked

(* the handshake and re-attestation states whose arms take an IdscpAck *)
AckAlsoConsumed == {WaitForRat, WaitForRatProver, WaitForRatVerifier, WaitForDatAndRat,
                    WaitForDatAndRatVerifier}

ProverOK == FromRatProver("OK")

(* C38: an Ack processed in WaitForRat, WaitForRatProver, WaitForRatVerifier,       *)
(* WaitForDatAndRat or WaitForDatAndRatVerifier returns success and keeps the       *)
(* state; with ack_flag Active and the bit of next_send it clears ack_flag, leaves  *)
(* ack_timer cancelled and flips next_send, so that no later ProverOK or VerifierOK *)
(* leads to WaitForAck and the one that completes the attestation leads to          *)
(* Established; with another bit or ack_flag Inactive it changes nothing. In        *)
(* Established an Ack returns UnknownTransition.                                    *)
C38_AckConsumedWhileAttesting ==
    ~fsm.blocked =>
        \A b \in Bits, w \in BOOLEAN :
            LET g == process_event(fsm, Ack(b), w)
            IN /\ fsm.current_state \in AckAlsoConsumed =>
                     /\ g.res = "Ok"
                     /\ g.current_state = fsm.current_state
                     /\ g.out = <<>>
                     /\ IF IsActive(fsm.ack_flag) /\ b = fsm.next_send_alternating_bit
                        THEN /\ g.ack_flag = Inactive
                             /\ ~g.ack_timer
                             /\ g.next_send_alternating_bit =
                                    alternate(fsm.next_send_alternating_bit)
                             /\ \A e \in {ProverOK, VerifierOK}, v \in BOOLEAN :
                                    process_event(g, e, v).current_state /= WaitForAck
                             /\ fsm.current_state = WaitForRatProver =>
                                    process_event(g, ProverOK, TRUE).current_state
                                        = Established
                             /\ fsm.current_state = WaitForRatVerifier =>
                                    process_event(g, VerifierOK, TRUE).current_state
                                        = Established
                        ELSE SameCore(fsm, g)
               /\ fsm.current_state = Established =>
                     /\ g.res = "UnknownTransition"
                     /\ SameCore(fsm, g)

(* the Ack of a payload sent before the re-attestation arrives while the verifier *)
(* is awaited, and the VerifierOK after it connects without a retransmission      *)
C38_Witness ==
    /\ fsm.current_state = WaitForRatVerifier
    /\ IsActive(fsm.ack_flag)
    /\ ~fsm.blocked
    /\ LET g == process_event(fsm, Ack(fsm.next_send_alternating_bit), TRUE)
       IN /\ g.ack_flag = Inactive
          /\ g.current_state = WaitForRatVerifier
          /\ process_event(g, VerifierOK, TRUE).current_state = Established
          /\ process_event(fsm, VerifierOK, TRUE).current_state = WaitForAck

(* the states in which the session is connected *)
ConnectedStates == {Established, WaitForAck}

IsAckMessage(m) == m.type = "Ack"

(* C39: on_message is invoked only by transitions taken in Established or           *)
(* WaitForAck; a peer Data processed in any other state is dropped: nothing is      *)
(* delivered, nothing (in particular no Ack) is sent, and expected_alternating_bit, *)
(* the state and every other field stay as they were.                               *)
C39_DataDeliveredOnlyWhileConnected ==
    ~fsm.blocked =>
        \A e \in FsmEvent, w \in BOOLEAN :
            LET g == process_event(fsm, e, w)
            IN /\ g.deliv /= <<>> => fsm.current_state \in ConnectedStates
               /\ (IsSc(e, "Data") /\ fsm.current_state \notin ConnectedStates) =>
                     /\ g.deliv = <<>>
                     /\ \A i \in 1..Len(g.out) : ~IsAckMessage(g.out[i])
                     /\ g.out = <<>>
                     /\ g.expected_alternating_bit = fsm.expected_alternating_bit
                     /\ ~g.blocked
                     /\ SameCore(fsm, g)

(* after a peer ReRat the connection is set and the prover is awaited: a Data with *)
(* the expected bit is refused, the same Data is delivered once connected again    *)
C39_Witness ==
    /\ fsm.current_state = WaitForRatProver
    /\ fsm.connection = "some"
    /\ fsm.handshake_result = "Successful"
    /\ ~fsm.blocked
    /\ LET d == PeerData(1, fsm.expected_alternating_bit)
           g == process_event(fsm, d, TRUE)
       IN /\ g.deliv = <<>>
          /\ g.res = "UnknownTransition"
          /\ process_event(process_event(g, ProverOK, TRUE), d, TRUE).deliv = <<1>>

(* C40: two endpoints over reliable FIFO channels that both start the handshake,    *)
(* with acceptable DATs, a common mechanism in both directions, RAT workers that    *)
(* all report OK and no timer expiring, eventually are both Established with        *)
(* HandshakeResult Successful, whatever the order of the Hello, RatProver,          *)
(* RatVerifier and OK events.                                                       *)
C40_HandshakeCompletes ==
    <>(\A p \in Endpoints : /\ peers[p].current_state = Established
                            /\ peers[p].handshake_result = "Successful")

====
